---------------------------- MODULE Spec2Model ----------------------------
(***************************************************************************)
(* Model of the CheckpointBackup controller (the Checkpoint Engine) of the *)
(* stateful-migration operator: one controller process per node, each with *)
(* a reconcile worker and a cron scheduler, all working on one             *)
(* CheckpointBackup object and the pod it references.                      *)
(*                                                                         *)
(* Source: src/internal/controller/checkpointbackup_controller.go          *)
(***************************************************************************)
EXTENDS Integers, Sequences, FiniteSets, TLC

(***************************************************************************)
(* Bounds of the model                                                     *)
(***************************************************************************)
\* number of node-agent checkpoint calls per container that are counted
MaxCalls == 2
\* number of Reconcile calls that are counted
MaxReconcilesCounted == 3
\* SpecFaults: Reconcile calls, API-server errors, process crashes, and the
\* largest value of the wall clock (the name stamps have seconds resolution)
FaultsMaxReconciles == 3
MaxApiErrors == 2
MaxCrashes == 1
MaxClock == 1
\* SpecCron: Reconcile calls and cron firings
CronMaxReconciles == 2
CronMaxFires == 1
\* SpecDelete: Reconcile calls (of both nodes) and cron firings
DeleteMaxReconciles == 3
DeleteMaxFires == 1
\* SpecMove: Reconcile calls, cron firings, re-creations of the pod
MoveMaxReconciles == 1
MoveMaxFires == 1
MaxPodGen == 1
\* SpecStop: Reconcile calls, cron firings, re-creations of the pod
StopMaxReconciles == 2
StopMaxFires == 1
StopMaxPodGen == 1
\* SpecLive: creations of the pod after the first reconcile
LiveMaxPodGen == 1

\* SpecStop: aborts of the process on a concurrent access of scheduledJobs
StopMaxCrashes == 1
\* SpecEdit: Reconcile calls, cron firings
EditMaxReconciles == 2
EditMaxFires == 1
\* SpecRegistry: Reconcile calls
RegistryMaxReconciles == 2
\* SpecOverlap: Reconcile calls, cron firings
OverlapMaxReconciles == 1
OverlapMaxFires == 2
\* SpecRO: restore Reconcile calls, admission requests
MaxPasses == 2
MaxAdmits == 1
\* SpecRestore: applications of the restore steps
RestoreMaxPasses == 2
\* SpecIRA: admission requests
IRAMaxAdmits == 1
\* CheckpointRestores stored at a time
MaxRestores == 3

(***************************************************************************)
(* Program constants                                                       *)
(***************************************************************************)
\* updatePhase / recordCheckpointFile / recordBuiltImage: maxRetries := 3
maxRetries == 3

PhaseNone == ""
PhaseCheckpointing == "Checkpointing"
PhaseCheckpointed == "Checkpointed"
PhaseImageBuilding == "ImageBuilding"
PhaseImageBuilt == "ImageBuilt"
PhaseImagePushing == "ImagePushing"
PhaseImagePushed == "ImagePushed"
PhaseCompleted == "Completed"
PhaseCompletedPodDeleted == "CompletedPodDeleted"
PhaseCompletedWithError == "CompletedWithError"
PhaseFailed == "Failed"

Phases ==
  {PhaseNone, PhaseCheckpointing, PhaseCheckpointed, PhaseImageBuilding,
   PhaseImageBuilt, PhaseImagePushing, PhaseImagePushed, PhaseCompleted,
   PhaseCompletedPodDeleted, PhaseCompletedWithError, PhaseFailed}

\* the nodes of the member cluster; one controller process runs on each
Nodes == {"n1", "n2"}
\* goroutines of one controller process: the reconcile worker and the
\* goroutine the cron scheduler starts for a firing entry
\* the goroutines of a controller process: the reconcile worker and the
\* goroutines the cron scheduler starts, one per firing of an entry
Kinds == {"rec", "cron", "cron2"}
Threads == Nodes \X Kinds

\* in-memory CheckpointBackup objects of one process (backup pointers);
\* NoObj is the nil pointer
ObjIds == {1, 2, 3}
NoObj == 0

\* pod.Spec.Containers: name -> image
PodContainers == <<[name |-> "a", image |-> "nginx"]>>

\* the placeholder CreateCheckpoint returns when the body cannot be used
UnknownFile == <<"unknown-checkpoint-file", 0>>
NoPath == <<"", 0>>
NoImage == <<"", "", 0>>


\* what CheckpointBackup.Spec can be: the schedule ("immediately", a cron
\* expression, or a string the cron parser rejects), stopPod, whether a
\* registry is configured, and the containers list
ContainerLists ==
  { <<>>,
    <<[name |-> "a", image |-> ""]>>,
    <<[name |-> "a", image |-> "repo/ckpt-a"]>> }

Specs ==
  [schedule : {"immediately", "cron", "bad"}, stopPod : BOOLEAN,
   registry : BOOLEAN, containers : ContainerLists]

EmptyStatus ==
  [phase |-> PhaseNone, message |-> "", checkpointFiles |-> <<>>,
   builtImages |-> <<>>, lastCheckpointTime |-> FALSE]

\* a free slot of the heap, and the stored object after its deletion
BlankObj ==
  [exists |-> FALSE, finalizer |-> FALSE, deleting |-> FALSE,
   spec |-> [schedule |-> "immediately", stopPod |-> FALSE,
             registry |-> FALSE, containers |-> <<>>],
   status |-> EmptyStatus]

NoPod == [exists |-> FALSE, node |-> "n1", phase |-> "Pending"]

\* the local variables of performCheckpoint / checkpointContainer
BlankLoc ==
  [b |-> NoObj, ci |-> 0, checkpointPath |-> NoPath,
   fullCheckpointPath |-> NoPath, imageName |-> NoImage, pushed |-> FALSE,
   i |-> 0, got |-> FALSE, entryID |-> NoObj, destinationImage |-> <<>>]

(***************************************************************************)
(* The federation control plane: what its objects can be                   *)
(***************************************************************************)
\* the member clusters
Clusters == {"c1", "c2"}

\* StatefulMigration.Spec.SourceClusters
ClusterLists == {<<"c1">>, <<"c2">>, <<"c1", "c2">>, <<"c2", "c1">>}

\* ResourceRef, of the StatefulMigration, of a ResourceBinding
\* (Spec.Resource) and of a CheckpointBackup
ResourceRefs ==
  { [apiVersion |-> "v1", kind |-> "Pod", name |-> <<"w">>,
     namespace |-> "t"],
    [apiVersion |-> "v1", kind |-> "Pod", name |-> <<"w">>,
     namespace |-> "u"],
    [apiVersion |-> "apps/v1", kind |-> "StatefulSet", name |-> <<"w">>,
     namespace |-> "t"] }

Namespaces == {"t", "u"}

\* object names are sequences of parts: "w" is <<"w">>, "w-0" is
\* <<"w", "-0">>, the empty string is <<>>
NoName == <<>>

NoMigration ==
  [exists |-> FALSE,
   spec |-> [resourceRef |-> [apiVersion |-> "", kind |-> "",
                              name |-> <<>>, namespace |-> ""],
             sourceClusters |-> <<>>]]

\* an admission request that was never made
NoRequest ==
  [kind |-> "", version |-> "", operation |-> "", namespace |-> "",
   object |-> [name |-> NoName, generateName |-> NoName,
               ownerReferences |-> <<>>,
               containers |-> <<>>, initContainers |-> <<>>]]

NoAdmission ==
  [handler |-> "", request |-> NoRequest, outcome |-> "ok", code |-> 0,
   allowed |-> FALSE, patch |-> <<>>]

VARIABLES
  obj,           \* the CheckpointBackup stored by the API server
  seen,          \* threads holding the current resourceVersion of obj
  queue,         \* controllers whose workqueue holds the key of obj
  registryClient, \* per node: r.RegistryClient
  pod,           \* the pod named by spec.podRef
  disk,          \* per node: the files under CheckpointBasePath
  clock,         \* wall clock, in seconds
  heap,          \* per node: the in-memory CheckpointBackup objects
  sched,         \* per node: entries of r.Scheduler (by captured backup)
  scheduledJobs, \* per node: r.scheduledJobs[backupKey]
  pc,            \* per thread: where it is
  loc,           \* per thread: its local variables
  calls,         \* per container: node-agent checkpoint calls made
  reconciles,    \* Reconcile calls started so far
  fires,         \* cron firings so far
  podGen,        \* how often the pod was re-created
  apiErrors,     \* API-server errors injected so far
  crashes        \* process crashes so far

\* the federation control plane, where the restore reconciler and the
\* image-rewriting webhook work
VARIABLES
  statefulMigration,   \* the StatefulMigration the restore reconciler polls
  karmadaClient,       \* r.KarmadaClient != nil
  resourceBindings,    \* ResourceBindingList.Items
  checkpointBackups,   \* CheckpointBackupList.Items of the control plane
  checkpointRestores,  \* CheckpointRestoreList.Items
  deletedRestores,     \* the CheckpointRestores that were deleted
  propagationPolicies, \* the PropagationPolicies
  works,               \* WorkList.Items
  result,              \* what the last restore Reconcile returned
  admission,           \* the last admission request and its response
  passes,              \* restore Reconcile calls so far
  admits               \* admission requests so far

ceVars ==
  <<obj, seen, queue, registryClient, pod, disk, clock, heap, sched,
    scheduledJobs, pc, loc, calls, reconciles, fires, podGen, apiErrors, crashes>>

roVars ==
  <<statefulMigration, karmadaClient, resourceBindings, checkpointBackups,
    checkpointRestores, deletedRestores, propagationPolicies, works, result,
    admission, passes, admits>>

vars == <<ceVars, roVars>>

envCounters == <<reconciles, fires, podGen, apiErrors, crashes>>

Rec(n) == <<n, "rec">>
Cron(n) == <<n, "cron">>
Cron2(n) == <<n, "cron2">>
NodeOf(th) == th[1]

(***************************************************************************)
(* Helpers on sequences                                                    *)
(***************************************************************************)
Range(s) == {s[k] : k \in 1..Len(s)}

Min(a, b) == IF a < b THEN a ELSE b


(***************************************************************************)
(* Pure helpers of the controller                                          *)
(***************************************************************************)
\* shouldStopPod
shouldStopPod(backup) == backup.spec.stopPod

\* getCheckpointFilePath: the path of the first checkpointFiles entry of
\* the container, NoPath when there is none
RECURSIVE FirstPath(_, _)
FirstPath(files, containerName) ==
  IF files = <<>> THEN NoPath
  ELSE IF Head(files).containerName = containerName THEN Head(files).filePath
  ELSE FirstPath(Tail(files), containerName)

getCheckpointFilePath(backup, containerName) ==
  FirstPath(backup.status.checkpointFiles, containerName)

\* the loop of checkpointContainer over Status.BuiltImages
imageAlreadyBuilt(backup, containerName) ==
  \E k \in 1..Len(backup.status.builtImages) :
    backup.status.builtImages[k].containerName = containerName

\* migrationv1.Registry: the URL, as <<scheme, host>>, and the name of
\* the credentials secret. OwnRegistry is the one of spec.registry of the
\* CheckpointBackup when it has one; the other CheckpointBackups of the
\* cluster name one of OtherRegistries
NoURL == <<"", "">>
OwnRegistry == [url |-> <<"https://", "r1">>, secretRef |-> "s1"]
OtherRegistries ==
  {OwnRegistry,
   [url |-> <<"", "r2">>, secretRef |-> "s2"],
   [url |-> NoURL, secretRef |-> ""]}

\* the credentials secrets of the cluster, by name
Secret(name) ==
  CASE name = "s1" ->
         [username |-> "u1", password |-> "p1", registry |-> NoURL]
    [] name = "s2" ->
         [username |-> "u2", password |-> "p2", registry |-> NoURL]
    [] OTHER ->
         [username |-> "u0", password |-> "p0", registry |-> NoURL]

\* r.RegistryClient == nil
NoClient == [username |-> "", password |-> "", registry |-> NoURL]

\* NewRegistryClient, lines 222-266
NewRegistryClient(registryConfig) ==
  LET secretName == IF registryConfig.secretRef # ""
                    THEN registryConfig.secretRef
                    ELSE "registry-credentials"
      secret == Secret(secretName)
      registryURL == IF registryConfig.url # NoURL THEN registryConfig.url
                     ELSE IF secret.registry # NoURL THEN secret.registry
                     ELSE <<"", "docker.io">>
  IN [username |-> secret.username, password |-> secret.password,
      registry |-> registryURL]

\* initializeClients, lines 176-182: the registry client is built once
initializeClients(client, hasRegistry, registryConfig) ==
  IF client = NoClient /\ hasRegistry
  THEN NewRegistryClient(registryConfig)
  ELSE client

\* PushImage, lines 1042-1048: the scheme is trimmed from the registry
\* URL and the destination is <registry>/<image-name>
destinationImage(rc, imageName) == <<rc.registry[2]>> \o imageName

\* performCheckpoint: containersToProcess
containersToProcess(spec) ==
  IF Len(spec.containers) = 0 /\ ~spec.registry
  THEN [k \in 1..Len(PodContainers) |->
          [name |-> PodContainers[k].name, image |-> ""]]
  ELSE spec.containers

\* checkpointContainer, step 2: the image of the container in the pod spec
baseImage(containerName) ==
  IF \E k \in 1..Len(PodContainers) : PodContainers[k].name = containerName
  THEN (CHOOSE c \in Range(PodContainers) : c.name = containerName).image
  ELSE ""

\* the image name taken from spec.containers whenever it is given, with
\* or without a registry
resolveImageNameFromSpec(spec, container, now) ==
  IF container.image = ""
  THEN <<"localhost/checkpoint", container.name, now>>
  ELSE <<container.image, "", 0>>

\* checkpointContainer, step 3: the image name to build
resolveImageName(spec, container, now) ==
  IF ~spec.registry \/ container.image = ""
  THEN <<"localhost/checkpoint", container.name, now>>
  ELSE <<container.image, "", 0>>

\* the phase guards of performCheckpoint: TRUE when the pipeline is skipped
phaseGuardSkips(backup) ==
  backup.status.phase \in
    {PhaseCompleted, PhaseCompletedPodDeleted, PhaseCompletedWithError,
     PhaseCheckpointing, PhaseCheckpointed, PhaseImageBuilding,
     PhaseImageBuilt, PhaseImagePushing, PhaseImagePushed}

\* KubeletClient.CreateCheckpoint: from the response to the relative path.
\* A response is [code, json, items]; items are <<dir, file>> paths.
CheckpointBasePath == "/var/lib/kubelet/checkpoints"

CreateCheckpoint(resp) ==
  IF resp.code # 200 THEN [err |-> TRUE, path |-> NoPath]
  ELSE IF ~resp.json \/ Len(resp.items) = 0
       THEN [err |-> FALSE, path |-> UnknownFile]
       ELSE [err |-> FALSE, path |-> resp.items[1][2]]

\* findCheckpointFile: the expected path when it exists; else among the
\* files of the container the most recent one; NoPath (an error) when none
findCheckpointFile(files, containerName, expectedPath) ==
  IF expectedPath \in files THEN expectedPath
  ELSE LET matches == {f \in files : f[1] = containerName} IN
       IF matches = {} THEN NoPath
       ELSE CHOOSE f \in matches : \A g \in matches : g[2] <= f[2]

\* recordCheckpointFile / recordBuiltImage: the duplicate checks
fileAlreadyRecorded(latest, containerName, checkpointPath) ==
  \E k \in 1..Len(latest.status.checkpointFiles) :
    /\ latest.status.checkpointFiles[k].containerName = containerName
    /\ latest.status.checkpointFiles[k].filePath = checkpointPath

\* recordBuiltImage without its duplicate check
imageNeverRecorded(latest, containerName, imageName) == FALSE

imageAlreadyRecorded(latest, containerName, imageName) ==
  \E k \in 1..Len(latest.status.builtImages) :
    /\ latest.status.builtImages[k].containerName = containerName
    /\ latest.status.builtImages[k].imageName = imageName

(***************************************************************************)
(* The in-memory objects of a process                                      *)
(***************************************************************************)
LiveIds(n, sc, sj, lc) ==
  (sc[n] \cup {sj[n], lc[Rec(n)].b, lc[Cron(n)].b, lc[Cron2(n)].b,
               lc[Rec(n)].entryID, lc[Cron(n)].entryID,
               lc[Cron2(n)].entryID}) \ {NoObj}

\* a new backup object: the smallest slot nothing points to
NewObj(n) ==
  CHOOSE k \in ObjIds :
    /\ k \notin LiveIds(n, sched, scheduledJobs, loc)
    /\ \A j \in ObjIds : j < k => j \in LiveIds(n, sched, scheduledJobs, loc)

\* objects nothing points to any more are dropped
SetHeap(n, h) ==
  \E live \in {LiveIds(n, sched', scheduledJobs', loc')} :
    heap' = [heap EXCEPT ![n] =
               [k \in ObjIds |-> IF k \in live THEN h[k] ELSE BlankObj]]

Goto(th, stage, l) ==
  /\ pc' = [pc EXCEPT ![th] = stage]
  /\ loc' = [loc EXCEPT ![th] = IF stage = "idle" THEN BlankLoc ELSE l]

\* the scheduler of node n without the entry scheduledJobs names
\* (Scheduler.Remove + delete(scheduledJobs, key))
RemoveJob(n) ==
  /\ sched' = [sched EXCEPT ![n] = @ \ {scheduledJobs[n]}]
  /\ scheduledJobs' = [scheduledJobs EXCEPT ![n] = NoObj]

(***************************************************************************)
(* Initial state: the object was just created, the pod is on n1            *)
(***************************************************************************)
\* the control plane with nothing in it
NoFederation ==
  /\ statefulMigration = NoMigration
  /\ karmadaClient = FALSE
  /\ resourceBindings = <<>>
  /\ checkpointBackups = <<>>
  /\ checkpointRestores = <<>>
  /\ deletedRestores = {}
  /\ propagationPolicies = {}
  /\ works = <<>>
  /\ result = "none"
  /\ admission = NoAdmission
  /\ passes = 0
  /\ admits = 0

\* the controllers before the first Reconcile of the request
InitController ==
  /\ \E sp \in Specs :
       obj = [BlankObj EXCEPT !.exists = TRUE, !.spec = sp]
  /\ seen = {}
  /\ queue = Nodes
  /\ registryClient = [n \in Nodes |-> NoClient]
  /\ disk = [n \in Nodes |-> {}]
  /\ clock = 0
  /\ heap = [n \in Nodes |-> [k \in ObjIds |-> BlankObj]]
  /\ sched = [n \in Nodes |-> {}]
  /\ scheduledJobs = [n \in Nodes |-> NoObj]
  /\ pc = [th \in Threads |-> "idle"]
  /\ loc = [th \in Threads |-> BlankLoc]
  /\ calls = [c \in {"a"} |-> 0]
  /\ reconciles = 0
  /\ fires = 0
  /\ podGen = 0
  /\ apiErrors = 0
  /\ crashes = 0

\* the member cluster before the first Reconcile
InitEngine ==
  /\ InitController
  /\ pod = [exists |-> TRUE, node |-> "n1", phase |-> "Pending"]

Init == InitEngine /\ NoFederation


(***************************************************************************)
(* Reconcile                                                               *)
(***************************************************************************)
\* where Reconcile goes once the finalizer is present (lines 139-160)
AfterFinalizer(backup) ==
  IF backup.deleting THEN "reconcileDelete"
  ELSE IF backup.status.phase = PhaseCompletedPodDeleted THEN "idle"
  ELSE "isPodOnThisNode"

\* Reconcile, lines 103-131: r.Get; when the object is gone the worker
\* goes on to the clean-up of the scheduled job (ReconcileNotFound);
\* otherwise it holds a fresh copy of the object
ReconcileGet(n) ==
  /\ UNCHANGED roVars
  /\ pc[Rec(n)] = "idle"
  /\ reconciles' = Min(reconciles + 1, MaxReconcilesCounted)
  /\ queue' = queue \ {n}
  /\ registryClient' =
       IF ~obj.exists THEN registryClient
       ELSE [registryClient EXCEPT
               ![n] = initializeClients(@, obj.spec.registry, OwnRegistry)]
  /\ IF ~obj.exists
     THEN /\ Goto(Rec(n), "notFound", BlankLoc)
          /\ UNCHANGED <<sched, scheduledJobs, seen>>
          /\ SetHeap(n, heap[n])
     ELSE LET b == NewObj(n)
              l == [BlankLoc EXCEPT !.b = b]
          IN /\ Goto(Rec(n),
                     IF ~obj.finalizer THEN "addFinalizer"
                     ELSE AfterFinalizer(obj), l)
             /\ seen' = seen \cup {Rec(n)}
             /\ UNCHANGED <<sched, scheduledJobs>>
             /\ SetHeap(n, [heap[n] EXCEPT ![b] = obj])
  /\ UNCHANGED <<obj, pod, disk, clock, calls, fires, podGen, apiErrors,
                 crashes>>

\* Reconcile, lines 110-119: the object was not found; the scheduled job
\* of the key is looked up in scheduledJobs (113), removed from the
\* scheduler (114) and deleted from the map (115)
ReconcileNotFound(n) ==
  /\ UNCHANGED roVars
  /\ pc[Rec(n)] = "notFound"
  /\ RemoveJob(n)
  /\ Goto(Rec(n), "idle", loc[Rec(n)])
  /\ SetHeap(n, heap[n])
  /\ UNCHANGED <<obj, seen, queue, registryClient, pod, disk, clock, calls,
                 envCounters>>

\* Reconcile, lines 131-137: AddFinalizer + r.Update
AddFinalizer(n) ==
  /\ UNCHANGED roVars
  /\ pc[Rec(n)] = "addFinalizer"
  /\ LET l == loc[Rec(n)] IN
     IF obj.exists /\ Rec(n) \in seen
     THEN LET o == [obj EXCEPT !.finalizer = TRUE] IN
          /\ obj' = o
          /\ seen' = {Rec(n)}
          /\ queue' = Nodes
          /\ UNCHANGED registryClient
          /\ Goto(Rec(n), AfterFinalizer(o), l)
          /\ UNCHANGED <<sched, scheduledJobs>>
          /\ SetHeap(n, [heap[n] EXCEPT ![l.b] = o])
     ELSE \* NotFound or Conflict: Reconcile returns the error
          /\ Goto(Rec(n), "idle", l)
          /\ UNCHANGED <<obj, seen, queue, registryClient, sched, scheduledJobs>>
          /\ SetHeap(n, heap[n])
  /\ UNCHANGED <<pod, disk, clock, calls, envCounters>>

\* reconcileDelete, lines 542-565: the scheduled job is removed, then the
\* finalizer; the API server drops the object with its last finalizer
ReconcileDelete(n) ==
  /\ UNCHANGED roVars
  /\ pc[Rec(n)] = "reconcileDelete"
  /\ RemoveJob(n)
  /\ Goto(Rec(n), "idle", loc[Rec(n)])
  /\ IF obj.exists /\ Rec(n) \in seen
     THEN obj' = BlankObj /\ seen' = {} /\ queue' = Nodes
     ELSE UNCHANGED <<obj, seen, queue>>
  /\ UNCHANGED registryClient
  /\ SetHeap(n, heap[n])
  /\ UNCHANGED <<pod, disk, clock, calls, envCounters>>

\* isPodOnThisNode, lines 269-282
isPodOnThisNode(n) == pod.exists /\ pod.node = n

\* Reconcile, lines 150-160: the Get of the pod (isPodOnThisNode)
IsPodOnThisNode(n) ==
  /\ UNCHANGED roVars
  /\ pc[Rec(n)] = "isPodOnThisNode"
  /\ Goto(Rec(n),
          IF isPodOnThisNode(n) THEN "reconcileNormal" ELSE "idle",
          loc[Rec(n)])
  /\ UNCHANGED <<sched, scheduledJobs>>
  /\ SetHeap(n, heap[n])
  /\ UNCHANGED <<obj, seen, queue, registryClient, pod, disk, clock, calls,
                 envCounters>>

\* Reconcile, lines 151-154: the Get of the pod fails with an error other
\* than NotFound; Reconcile returns it and the key is queued again
IsPodOnThisNodeFail(n) ==
  /\ UNCHANGED roVars
  /\ pc[Rec(n)] = "isPodOnThisNode"
  /\ apiErrors' = apiErrors + 1
  /\ queue' = queue \cup {n}
  /\ Goto(Rec(n), "idle", loc[Rec(n)])
  /\ UNCHANGED <<sched, scheduledJobs>>
  /\ SetHeap(n, heap[n])
  /\ UNCHANGED <<obj, seen, registryClient, pod, disk, clock, calls,
                 reconciles, fires, podGen, crashes>>

\* reconcileNormal, lines 464-526: the branch of "immediately"; for the
\* other schedules the removal of the entry scheduledJobs records
\* (511-514) and Scheduler.AddFunc (517-525), after which the new entry is
\* in the running scheduler and can fire, while the map has no record yet
ReconcileNormal(n) ==
  /\ UNCHANGED roVars
  /\ pc[Rec(n)] = "reconcileNormal"
  /\ LET l == loc[Rec(n)]
         backup == heap[n][l.b]
     IN
     IF backup.spec.schedule = "immediately"
     THEN /\ Goto(Rec(n),
                  IF backup.status.phase # PhaseNone THEN "idle"
                  ELSE "performCheckpoint", l)
          /\ UNCHANGED <<sched, scheduledJobs, queue>>
     ELSE IF backup.spec.schedule = "bad"
     THEN \* the entry of this backup is removed, AddFunc returns an
          \* error (lines 522-525) and the key is queued again
          /\ RemoveJob(n)
          /\ queue' = queue \cup {n}
          /\ Goto(Rec(n), "idle", l)
     ELSE \* the entry of this backup is replaced by one that captures
          \* the object of this reconcile
          /\ sched' = [sched EXCEPT ![n] = (@ \ {scheduledJobs[n]}) \cup {l.b}]
          /\ scheduledJobs' = [scheduledJobs EXCEPT ![n] = NoObj]
          /\ UNCHANGED queue
          /\ Goto(Rec(n), "recordJob", [l EXCEPT !.entryID = l.b])
  /\ SetHeap(n, heap[n])
  /\ UNCHANGED <<obj, seen, registryClient, pod, disk, clock, calls,
                 envCounters>>

\* reconcileNormal, lines 527-539: the entry AddFunc returned is recorded
\* in scheduledJobs; performCheckpoint is called when the object of this
\* reconcile has no LastCheckpointTime
RecordScheduledJob(n) ==
  /\ UNCHANGED roVars
  /\ pc[Rec(n)] = "recordJob"
  /\ LET l == loc[Rec(n)]
         backup == heap[n][l.b]
     IN
     /\ scheduledJobs' = [scheduledJobs EXCEPT ![n] = l.entryID]
     /\ UNCHANGED sched
     /\ Goto(Rec(n),
             IF backup.status.lastCheckpointTime THEN "idle"
             ELSE "performCheckpoint", [l EXCEPT !.entryID = NoObj])
  /\ SetHeap(n, heap[n])
  /\ UNCHANGED <<obj, seen, queue, registryClient, pod, disk, clock, calls,
                 envCounters>>

\* the cron scheduler runs the function of an entry in a goroutine of
\* its own, whether or not an earlier firing still runs (the closure of
\* reconcileNormal, lines 517-521); of the goroutines not in use the
\* first one is taken
CronFire(th) ==
  /\ UNCHANGED roVars
  /\ th[2] \in {"cron", "cron2"}
  /\ pc[th] = "idle"
  /\ th[2] = "cron2" => pc[Cron(NodeOf(th))] # "idle"
  /\ fires' = fires + 1
  /\ \E e \in sched[NodeOf(th)] :
       Goto(th, "performCheckpoint", [BlankLoc EXCEPT !.b = e])
  /\ UNCHANGED <<obj, seen, queue, registryClient, pod, disk, clock, heap,
                 sched, scheduledJobs, calls, reconciles, podGen, apiErrors,
                 crashes>>


(***************************************************************************)
(* performCheckpoint and checkpointContainer                               *)
(***************************************************************************)
Backup(th) == heap[NodeOf(th)][loc[th].b]

Todo(th) == containersToProcess(Backup(th).spec)

Container(th) == Todo(th)[loc[th].ci]

\* the locals of checkpointContainer at its entry for container k
EnterContainer(l, k) ==
  [BlankLoc EXCEPT !.b = l.b, !.ci = k]

\* after container l.ci is done: the next container, or lines 632-635
\* (LastCheckpointTime is set on the in-memory object only)
StageAfterContainer(th, l) ==
  IF l.ci < Len(Todo(th)) THEN "checkpointContainer" ELSE "phCompleted"

LocAfterContainer(th, l) ==
  IF l.ci < Len(Todo(th)) THEN EnterContainer(l, l.ci + 1)
  ELSE [BlankLoc EXCEPT !.b = l.b, !.ci = l.ci]

HeapAfterContainer(th, l) ==
  IF l.ci < Len(Todo(th)) THEN heap[NodeOf(th)]
  ELSE [heap[NodeOf(th)] EXCEPT ![l.b].status.lastCheckpointTime = TRUE]

\* performCheckpoint, lines 568-630: the phase guards on the object the
\* caller passed, the pod lookup, the containers to process
PerformCheckpoint(th) ==
  /\ UNCHANGED roVars
  /\ pc[th] = "performCheckpoint"
  /\ UNCHANGED <<obj, seen, queue, registryClient, pod, disk, clock, sched, scheduledJobs, calls,
                 envCounters>>
  /\ LET l == loc[th]
         l0 == [l EXCEPT !.ci = 0]
     IN
     IF phaseGuardSkips(Backup(th)) \/ ~pod.exists \/ pod.phase # "Running"
     THEN /\ Goto(th, "idle", l)
          /\ SetHeap(NodeOf(th), heap[NodeOf(th)])
     ELSE /\ Goto(th, StageAfterContainer(th, l0), LocAfterContainer(th, l0))
          /\ SetHeap(NodeOf(th), HeapAfterContainer(th, l0))

\* checkpointContainer, lines 687-725: the resume check
CheckpointContainer(th) ==
  /\ UNCHANGED roVars
  /\ pc[th] = "checkpointContainer"
  /\ UNCHANGED <<obj, seen, queue, registryClient, pod, disk, clock, sched, scheduledJobs, calls,
                 envCounters>>
  /\ LET l == loc[th]
         n == NodeOf(th)
         c == Container(th).name
         existingPath == getCheckpointFilePath(Backup(th), c)
     IN
     IF existingPath # NoPath /\ existingPath \notin disk[n]
        /\ imageAlreadyBuilt(Backup(th), c)
     THEN \* the image is built and the file was cleaned up: return nil
          /\ Goto(th, StageAfterContainer(th, l), LocAfterContainer(th, l))
          /\ SetHeap(n, HeapAfterContainer(th, l))
     ELSE IF existingPath # NoPath /\ existingPath \in disk[n]
     THEN /\ Goto(th, "verify", [l EXCEPT !.checkpointPath = existingPath])
          /\ SetHeap(n, heap[n])
     ELSE /\ Goto(th, "phCheckpointing", l)
          /\ SetHeap(n, heap[n])

\* what the outside world does with a request of the controller: the
\* node agent, the builder, the registry and the pod deletion succeed or
\* fail, and the node agent may answer with a body that is no JSON
Outcomes == {"ok", "fail", "malformed"}

\* the node agent of node n answers a checkpoint request for a container:
\* it checkpoints only a running container of a pod of its own node; the
\* answer carries the file it has written
KubeletResponse(n, containerName, outcome) ==
  LET f == <<containerName, clock>> IN
  IF pod.exists /\ pod.node = n /\ pod.phase = "Running"
     /\ baseImage(containerName) # "" /\ outcome # "fail"
  THEN IF outcome = "ok"
       THEN [code |-> 200, json |-> TRUE,
             items |-> << <<CheckpointBasePath, f>> >>, file |-> {f}]
       ELSE [code |-> 200, json |-> FALSE, items |-> <<>>, file |-> {f}]
  ELSE [code |-> 500, json |-> FALSE, items |-> <<>>, file |-> {}]

\* checkpointContainer, lines 731-738: the call of the node agent
Kubelet(th, outcome) ==
  /\ UNCHANGED roVars
  /\ pc[th] = "kubelet"
  /\ LET l == loc[th]
         n == NodeOf(th)
         c == Container(th).name
         resp == KubeletResponse(n, c, outcome)
         r == CreateCheckpoint(resp)
     IN
     /\ calls' = [calls EXCEPT ![c] = Min(@ + 1, MaxCalls)]
     /\ disk' = [disk EXCEPT ![n] = @ \cup resp.file]
     /\ IF r.err
        THEN Goto(th, "phFailedCreate", l)
        ELSE Goto(th, "recFile", [l EXCEPT !.checkpointPath = r.path])
  /\ UNCHANGED <<obj, seen, queue, registryClient, pod, clock, heap, sched, scheduledJobs,
                 envCounters>>

\* checkpointContainer, lines 752-789: the file is looked up (with the
\* search as fallback), the base image and the image name are resolved
Verify(th) ==
  /\ UNCHANGED roVars
  /\ pc[th] = "verify"
  /\ UNCHANGED <<obj, seen, queue, registryClient, pod, disk, clock, sched, scheduledJobs, calls,
                 envCounters>>
  /\ LET l == loc[th]
         n == NodeOf(th)
         c == Container(th)
         full == l.checkpointPath
         actual == findCheckpointFile(disk[n], c.name, l.checkpointPath)
     IN
     IF actual = NoPath \/ baseImage(c.name) = ""
     THEN Goto(th, "idle", l)
     ELSE Goto(th, "phImageBuilding",
               [l EXCEPT !.fullCheckpointPath = full,
                         !.checkpointPath = actual,
                         !.imageName =
                            resolveImageName(Backup(th).spec, c, clock)])
  /\ SetHeap(NodeOf(th), heap[NodeOf(th)])

\* buildCheckpointImage, lines 984-1033: fails when the file is gone, and
\* when a builder command fails
Build(th, outcome) ==
  /\ UNCHANGED roVars
  /\ pc[th] = "build"
  /\ LET l == loc[th] IN
     IF outcome = "ok" /\ l.checkpointPath \in disk[NodeOf(th)]
     THEN Goto(th, "phImageBuilt", l)
     ELSE Goto(th, "phFailedBuild", l)
  /\ UNCHANGED <<obj, seen, queue, registryClient, pod, disk, clock, heap, sched, scheduledJobs,
                 calls, envCounters>>

\* RegistryClient.PushImage, lines 1035-1057
Push(th, outcome) ==
  /\ UNCHANGED roVars
  /\ pc[th] = "push"
  /\ LET l == loc[th] IN
     IF outcome = "ok"
     THEN Goto(th, "phImagePushed",
               [l EXCEPT !.pushed = TRUE,
                         !.destinationImage =
                            destinationImage(registryClient[NodeOf(th)],
                                             l.imageName)])
     ELSE Goto(th, "phFailedPush", l)
  /\ UNCHANGED <<obj, seen, queue, registryClient, pod, disk, clock, heap, sched, scheduledJobs,
                 calls, envCounters>>

\* checkpointContainer, lines 840-853, and the return to performCheckpoint
Cleanup(th) ==
  /\ UNCHANGED roVars
  /\ pc[th] = "cleanup"
  /\ UNCHANGED <<obj, seen, queue, registryClient, pod, clock, sched, scheduledJobs, calls,
                 envCounters>>
  /\ LET l == loc[th]
         n == NodeOf(th)
     IN
     /\ disk' = [disk EXCEPT ![n] =
                   IF ~Backup(th).spec.registry \/ l.pushed
                   THEN @ \ {l.fullCheckpointPath} ELSE @]
     /\ Goto(th, StageAfterContainer(th, l), LocAfterContainer(th, l))
     /\ SetHeap(n, HeapAfterContainer(th, l))

\* performCheckpoint, lines 640-652: r.Delete of the pod. When it fails the
\* invocation goes on to updatePhase(CompletedWithError) and returns the
\* error; the scheduled job is not looked at on that path
DeletePod(th, outcome) ==
  /\ UNCHANGED roVars
  /\ pc[th] = "deletePod"
  /\ LET l == loc[th]
     IN
     IF outcome = "ok" /\ pod.exists
     THEN /\ pod' = NoPod
          /\ Goto(th, "lookupJob", l)
     ELSE /\ Goto(th, "phCompletedWithError", l)
          /\ UNCHANGED pod
  /\ UNCHANGED <<obj, seen, queue, registryClient, disk, clock, heap, sched, scheduledJobs, calls,
                 envCounters>>

\* performCheckpoint, lines 654-660, after the pod has been deleted: the
\* key of the request is looked up in scheduledJobs, with the value the
\* map holds at that moment
LookupScheduledJob(th) ==
  /\ UNCHANGED roVars
  /\ pc[th] = "lookupJob"
  /\ LET l == loc[th]
         n == NodeOf(th)
     IN
     IF scheduledJobs[n] # NoObj
     THEN Goto(th, "removeJob", [l EXCEPT !.entryID = scheduledJobs[n]])
     ELSE Goto(th, "phCompletedPodDeleted", l)
  /\ UNCHANGED <<obj, seen, queue, registryClient, pod, disk, clock, heap, sched, scheduledJobs,
                 calls, envCounters>>

\* performCheckpoint, lines 661-663: Scheduler.Remove of the entry that
\* was looked up, and delete of the key from scheduledJobs; nothing
\* keeps the reconcile worker from replacing the entry in between
RemoveScheduledJob(th) ==
  /\ UNCHANGED roVars
  /\ pc[th] = "removeJob"
  /\ LET l == loc[th]
         n == NodeOf(th)
     IN
     /\ sched' = [sched EXCEPT ![n] = @ \ {l.entryID}]
     /\ scheduledJobs' = [scheduledJobs EXCEPT ![n] = NoObj]
     /\ Goto(th, "phCompletedPodDeleted", [l EXCEPT !.entryID = NoObj])
     /\ SetHeap(n, heap[n])
  /\ UNCHANGED <<obj, seen, queue, registryClient, pod, disk, clock, calls, envCounters>>


(***************************************************************************)
(* Status mutations: updatePhase, recordCheckpointFile, recordBuiltImage   *)
(* Each attempt is a Get of the latest object followed by a status Update  *)
(* that the API server rejects when the object changed in between.         *)
(***************************************************************************)
PhaseStages ==
  [phCheckpointing |-> PhaseCheckpointing,
   phFailedCreate |-> PhaseFailed,
   phCheckpointed |-> PhaseCheckpointed,
   phImageBuilding |-> PhaseImageBuilding,
   phFailedBuild |-> PhaseFailed,
   phImageBuilt |-> PhaseImageBuilt,
   phImagePushing |-> PhaseImagePushing,
   phFailedPush |-> PhaseFailed,
   phImagePushed |-> PhaseImagePushed,
   phCompleted |-> PhaseCompleted,
   phCompletedWithError |-> PhaseCompletedWithError,
   phCompletedPodDeleted |-> PhaseCompletedPodDeleted]

\* the message of each updatePhase call, without its parameters
PhaseMessages ==
  [phCheckpointing |-> "Creating checkpoint",
   phFailedCreate |-> "Failed to create checkpoint",
   phCheckpointed |-> "Checkpoint created",
   phImageBuilding |-> "Building checkpoint image",
   phFailedBuild |-> "Failed to build image",
   phImageBuilt |-> "Image built successfully",
   phImagePushing |-> "Pushing image",
   phFailedPush |-> "Failed to push image",
   phImagePushed |-> "Image pushed successfully",
   phCompleted |-> "All containers checkpointed successfully",
   phCompletedWithError |-> "Checkpoint completed but failed to delete pod",
   phCompletedPodDeleted |-> "Checkpoint completed and pod deleted successfully"]

MutStages == DOMAIN PhaseStages \cup {"recFile", "recImage"}

\* performCheckpoint going on to the next step after a failed container
\* instead of returning the error
OkNextAfterFailure(stage, backup) ==
  CASE stage = "phCheckpointing" -> "kubelet"
    [] stage = "recFile" -> "phCheckpointed"
    [] stage = "phCheckpointed" -> "verify"
    [] stage = "phImageBuilding" -> "build"
    [] stage = "phImageBuilt" ->
         IF backup.spec.registry THEN "phImagePushing" ELSE "recImage"
    [] stage = "phImagePushing" -> "push"
    [] stage = "phImagePushed" -> "recImage"
    [] stage = "recImage" -> "cleanup"
    [] stage \in {"phFailedCreate", "phFailedBuild", "phFailedPush"} ->
         "phCompleted"
    [] stage = "phCompleted" ->
         IF shouldStopPod(backup) THEN "deletePod" ELSE "idle"
    [] OTHER -> "idle"

\* where the caller continues when the mutation returned nil
OkNext(stage, backup) ==
  CASE stage = "phCheckpointing" -> "kubelet"
    [] stage = "recFile" -> "phCheckpointed"
    [] stage = "phCheckpointed" -> "verify"
    [] stage = "phImageBuilding" -> "build"
    [] stage = "phImageBuilt" ->
         IF backup.spec.registry THEN "phImagePushing" ELSE "recImage"
    [] stage = "phImagePushing" -> "push"
    [] stage = "phImagePushed" -> "recImage"
    [] stage = "recImage" -> "cleanup"
    [] stage = "phCompleted" ->
         IF shouldStopPod(backup) THEN "deletePod" ELSE "idle"
    [] OTHER -> "idle"

\* where the caller continues when the mutation returned an error: the
\* error is logged and dropped, except for the update to Completed
ErrNext(stage, backup) ==
  IF stage = "phCompleted" THEN "idle" ELSE OkNext(stage, backup)

\* updatePhase, lines 313-315
updatePhase(latest, phase, message) ==
  [latest EXCEPT !.status.phase = phase, !.status.message = message]

\* recordCheckpointFile, lines 378-386
recordCheckpointFile(latest, containerName, checkpointPath) ==
  [latest EXCEPT !.status.checkpointFiles =
     Append(@, [containerName |-> containerName, filePath |-> checkpointPath])]

\* recordBuiltImage, lines 434-443
recordBuiltImage(latest, containerName, imageName, pushed) ==
  [latest EXCEPT !.status.builtImages =
     Append(@, [containerName |-> containerName, imageName |-> imageName,
                pushed |-> pushed])]

\* the object a mutation stage writes, from the latest object
Mutated(stage, latest, l, containerName) ==
  CASE stage = "recFile" ->
         recordCheckpointFile(latest, containerName, l.checkpointPath)
    [] stage = "recImage" ->
         recordBuiltImage(latest, containerName, l.imageName, l.pushed)
    [] OTHER -> updatePhase(latest, PhaseStages[stage], PhaseMessages[stage])

\* the duplicate check that makes a record call return without a write
AlreadyRecorded(stage, latest, l, containerName) ==
  CASE stage = "recFile" ->
         fileAlreadyRecorded(latest, containerName, l.checkpointPath)
    [] stage = "recImage" ->
         imageAlreadyRecorded(latest, containerName, l.imageName)
    [] OTHER -> FALSE

\* the passed-in backup is kept in sync after a successful update
Synced(stage, backup, written) ==
  CASE stage = "recFile" ->
         [backup EXCEPT !.status.checkpointFiles =
                           written.status.checkpointFiles]
    [] stage = "recImage" ->
         [backup EXCEPT !.status.builtImages = written.status.builtImages]
    [] OTHER ->
         [backup EXCEPT !.status.phase = written.status.phase,
                        !.status.message = written.status.message]

ContainerName(th) ==
  IF loc[th].ci \in 1..Len(Todo(th)) THEN Container(th).name ELSE ""

Leave(th, stage) ==
  Goto(th, stage, [loc[th] EXCEPT !.i = 0, !.got = FALSE])

\* the Get of the latest object that starts an attempt
MutGet(th) ==
  /\ UNCHANGED roVars
  /\ pc[th] \in MutStages
  /\ ~loc[th].got
  /\ IF ~obj.exists
     THEN Leave(th, ErrNext(pc[th], Backup(th))) /\ UNCHANGED seen
     ELSE IF AlreadyRecorded(pc[th], obj, loc[th], ContainerName(th))
     THEN Leave(th, OkNext(pc[th], Backup(th))) /\ UNCHANGED seen
     ELSE /\ loc' = [loc EXCEPT ![th].got = TRUE]
          /\ seen' = seen \cup {th}
          /\ UNCHANGED pc
  /\ UNCHANGED <<sched, scheduledJobs>>
  /\ SetHeap(NodeOf(th), heap[NodeOf(th)])
  /\ UNCHANGED <<obj, queue, registryClient, pod, disk, clock, calls,
                 envCounters>>

\* the status Update that ends an attempt
MutUpdate(th) ==
  /\ UNCHANGED roVars
  /\ pc[th] \in MutStages
  /\ loc[th].got
  /\ LET n == NodeOf(th)
         l == loc[th]
         stage == pc[th]
     IN
     \/ \* the update is accepted
        /\ obj.exists /\ th \in seen
        /\ LET written == Mutated(stage, obj, l, ContainerName(th)) IN
           /\ obj' = written
           /\ seen' = {th}
           /\ queue' = Nodes
           /\ UNCHANGED registryClient
           /\ Leave(th, OkNext(stage, Backup(th)))
           /\ UNCHANGED <<sched, scheduledJobs>>
           /\ SetHeap(n, [heap[n] EXCEPT
                            ![l.b] = Synced(stage, heap[n][l.b], written)])
     \/ \* Conflict: retried while i < maxRetries-1
        /\ obj.exists /\ th \notin seen
        /\ IF l.i < maxRetries - 1
           THEN /\ loc' = [loc EXCEPT ![th].i = l.i + 1, ![th].got = FALSE]
                /\ UNCHANGED pc
           ELSE Leave(th, ErrNext(stage, Backup(th)))
        /\ UNCHANGED <<obj, seen, queue, registryClient, sched, scheduledJobs>>
        /\ SetHeap(n, heap[n])
     \/ \* NotFound: the object is gone
        /\ ~obj.exists
        /\ Leave(th, ErrNext(stage, Backup(th)))
        /\ UNCHANGED <<obj, seen, queue, registryClient, sched, scheduledJobs>>
        /\ SetHeap(n, heap[n])
  /\ UNCHANGED <<pod, disk, clock, calls, envCounters>>

\* an attempt that ends with an error other than a conflict (the API
\* server is unavailable, the request times out): no retry
MutFail(th) ==
  /\ UNCHANGED roVars
  /\ pc[th] \in MutStages
  /\ loc[th].got
  /\ obj.exists
  /\ apiErrors' = apiErrors + 1
  /\ Leave(th, ErrNext(pc[th], Backup(th)))
  /\ UNCHANGED <<obj, seen, queue, registryClient, sched, scheduledJobs>>
  /\ SetHeap(NodeOf(th), heap[NodeOf(th)])
  /\ UNCHANGED <<pod, disk, clock, calls, reconciles, fires, podGen, crashes>>

(***************************************************************************)
(* The environment                                                         *)
(***************************************************************************)
PodRun ==
  /\ UNCHANGED roVars
  /\ pod.exists /\ pod.phase = "Pending"
  /\ pod' = [pod EXCEPT !.phase = "Running"]
  /\ UNCHANGED <<obj, seen, queue, registryClient, disk, clock, heap, sched, scheduledJobs, pc, loc,
                 calls, envCounters>>

\* the pod is deleted by someone else
PodGone ==
  /\ UNCHANGED roVars
  /\ pod.exists
  /\ pod' = NoPod
  /\ UNCHANGED <<obj, seen, queue, registryClient, disk, clock, heap, sched, scheduledJobs, pc, loc,
                 calls, envCounters>>

\* a pod of the same name is created again and scheduled on node n
PodCreate(n) ==
  /\ UNCHANGED roVars
  /\ ~pod.exists
  /\ podGen' = podGen + 1
  /\ pod' = [exists |-> TRUE, node |-> n, phase |-> "Pending"]
  /\ UNCHANGED <<obj, seen, queue, registryClient, disk, clock, heap, sched, scheduledJobs, pc, loc,
                 calls, reconciles, fires, apiErrors, crashes>>

\* the key of the object is added to the workqueue of controller n with
\* no write of the object (For without predicates, SetupWithManager): the
\* RequeueAfter of reconcileNormal (line 538), the requeue after a
\* returned error, a resync of the cache when the manager is set up with
\* one
Requeue(n) ==
  /\ UNCHANGED roVars
  /\ n \notin queue
  /\ queue' = queue \cup {n}
  /\ UNCHANGED <<obj, seen, registryClient, pod, disk, clock, heap, sched,
                 scheduledJobs, pc, loc, calls, envCounters>>

\* Reconcile for another CheckpointBackup of the cluster, whose pod is not
\* on node n and which names the registry registryConfig: lines 103-160,
\* of which initializeClients (line 125) changes the process
ReconcileOther(n, registryConfig) ==
  /\ UNCHANGED roVars
  /\ pc[Rec(n)] = "idle"
  /\ registryClient' =
       [registryClient EXCEPT
          ![n] = initializeClients(@, TRUE, registryConfig)]
  /\ UNCHANGED <<obj, seen, queue, pod, disk, clock, heap, sched,
                 scheduledJobs, pc, loc, calls, envCounters>>

Tick ==
  /\ UNCHANGED roVars
  /\ clock' = clock + 1
  /\ UNCHANGED <<obj, seen, queue, registryClient, pod, disk, heap, sched, scheduledJobs, pc, loc,
                 calls, envCounters>>

\* the user (or the backup orchestrator) deletes the CheckpointBackup
UserDelete ==
  /\ UNCHANGED roVars
  /\ obj.exists /\ ~obj.deleting
  /\ obj' = IF obj.finalizer THEN [obj EXCEPT !.deleting = TRUE] ELSE BlankObj
  /\ seen' = {}
  /\ queue' = Nodes
  /\ UNCHANGED <<registryClient, pod, disk, clock, heap, sched, scheduledJobs, pc, loc,
                 calls, envCounters>>

\* the user changes the schedule of the CheckpointBackup from a cron
\* expression to "immediately"
UserReschedule ==
  /\ UNCHANGED roVars
  /\ obj.exists /\ ~obj.deleting
  /\ obj.spec.schedule = "cron"
  /\ obj' = [obj EXCEPT !.spec.schedule = "immediately"]
  /\ seen' = {}
  /\ queue' = Nodes
  /\ UNCHANGED <<registryClient, pod, disk, clock, heap, sched, scheduledJobs, pc, loc,
                 calls, envCounters>>

\* the controller process of node n dies and is started again: its
\* goroutines, its scheduler and its in-memory objects are gone
Crash(n) ==
  /\ UNCHANGED roVars
  /\ crashes' = crashes + 1
  /\ pc' = [th \in Threads |-> IF NodeOf(th) = n THEN "idle" ELSE pc[th]]
  /\ loc' = [th \in Threads |-> IF NodeOf(th) = n THEN BlankLoc ELSE loc[th]]
  /\ sched' = [sched EXCEPT ![n] = {}]
  /\ scheduledJobs' = [scheduledJobs EXCEPT ![n] = NoObj]
  /\ heap' = [heap EXCEPT ![n] = [k \in ObjIds |-> BlankObj]]
  /\ seen' = {th \in seen : NodeOf(th) # n}
  /\ queue' = IF obj.exists THEN queue \cup {n} ELSE queue \ {n}
  /\ registryClient' = [registryClient EXCEPT ![n] = NoClient]
  /\ UNCHANGED <<obj, pod, disk, clock, calls, reconciles, fires, podGen,
                 apiErrors>>

\* the goroutines of a process read and write the map scheduledJobs
\* without a lock. Reads(t): the next step of t looks the key up: the
\* NotFound branch of Reconcile (113), reconcileNormal for a schedule
\* other than "immediately" (511), reconcileDelete (551), performCheckpoint
\* after the deletion of the pod (660). Writes(t): the next step of t
\* changes the map: the delete of a key that is present (115, 513, 553,
\* 662) and the record of the new entry (527). When two goroutines of node
\* n are at the map at once and one of them writes it, that is a data
\* race; the Go runtime may abort the process ("concurrent map read and
\* map write", "concurrent map writes"), which is then started again
ScheduledJobsRace(n) ==
  LET Reads(t) ==
        \/ pc[t] \in {"notFound", "reconcileDelete", "lookupJob"}
        \/ /\ pc[t] = "reconcileNormal"
           /\ heap[n][loc[t].b].spec.schedule # "immediately"
      Writes(t) ==
        \/ pc[t] \in {"removeJob", "recordJob"}
        \/ /\ pc[t] \in {"notFound", "reconcileDelete"}
           /\ scheduledJobs[n] # NoObj
        \/ /\ pc[t] = "reconcileNormal"
           /\ heap[n][loc[t].b].spec.schedule # "immediately"
           /\ scheduledJobs[n] # NoObj
  IN /\ \E t1, t2 \in Threads :
          /\ t1 # t2 /\ NodeOf(t1) = n /\ NodeOf(t2) = n
          /\ Writes(t1)
          /\ Reads(t2) \/ Writes(t2)
     /\ Crash(n)

(***************************************************************************)
(* The restore reconciler (MigrationRestoreReconciler)                     *)
(***************************************************************************)
\* strings.HasPrefix on names
HasPrefix(s, prefix) ==
  Len(prefix) =< Len(s) /\ SubSeq(s, 1, Len(prefix)) = prefix

\* strings.ToLower on the kinds
ToLower(s) ==
  CASE s = "Pod" -> "pod"
    [] s = "StatefulSet" -> "statefulset"
    [] OTHER -> s

\* the API call of a Reconcile pass that fails, if one does
Faults ==
  {"none", "listBindings", "listBackups", "getRestore", "createRestore",
   "policy", "listWorks", "updateWork"}

\* the objects a Reconcile pass writes, and the error it has run into
\* ("" is nil)
Plane ==
  [restores |-> checkpointRestores, policies |-> propagationPolicies,
   works |-> works, err |-> ""]

Fail(k, err) == [k EXCEPT !.err = err]

\* the four comparisons of findResourceBinding, findCheckpointBackups and
\* findWorkForResource
sameResource(a, b) ==
  /\ a.apiVersion = b.apiVersion
  /\ a.kind = b.kind
  /\ a.name = b.name
  /\ a.namespace = b.namespace

First(S) == IF S = {} THEN 0 ELSE CHOOSE i \in S : \A j \in S : i =< j

\* a lookup that goes by the resource alone
findResourceBindingByResource(bindings, resourceRef, sourceCluster) ==
  First({i \in 1..Len(bindings) :
           sameResource(bindings[i].spec.resource, resourceRef)})

\* findResourceBinding: the index of the binding returned, 0 for NotFound
findResourceBinding(bindings, resourceRef, sourceCluster) ==
  First({i \in 1..Len(bindings) :
           /\ sameResource(bindings[i].spec.resource, resourceRef)
           /\ \E j \in 1..Len(bindings[i].spec.clusters) :
                bindings[i].spec.clusters[j] = sourceCluster})

\* a check that never finds the cluster
isSourceClusterNeverAvailable(binding, sourceCluster) == FALSE

isSourceClusterStillAvailable(binding, sourceCluster) ==
  \E j \in 1..Len(binding.spec.clusters) :
    binding.spec.clusters[j] = sourceCluster

findCheckpointBackups(backups, resourceRef, sourceCluster) ==
  LET matching(backup) ==
        /\ sameResource(backup.spec.resourceRef, resourceRef)
        /\ backup.spec.podRef.namespace = resourceRef.namespace
  IN SelectSeq(backups, matching)

\* KarmadaClient.CreateOrUpdatePropagationPolicy: the policy of that name
\* and namespace is created, or replaced
CreateOrUpdatePropagationPolicy(k, policy, fault) ==
  IF fault = "policy"
  THEN Fail(k, "failed to create propagation policy")
  ELSE [k EXCEPT !.policies =
          {q \in @ : q.name # policy.name \/ q.namespace # policy.namespace}
            \cup {policy}]

createRestorePropagationPolicy(k, restore, migration, fault) ==
  LET targetCluster ==
        IF Len(migration.spec.sourceClusters) > 0
        THEN migration.spec.sourceClusters[1]
        ELSE ""
      policy ==
        [name |-> restore.name \o <<"-restore-policy">>,
         namespace |-> restore.namespace,
         resourceSelector |-> [kind |-> "CheckpointRestore",
                               name |-> restore.name],
         clusterNames |-> <<targetCluster>>]
  IN IF targetCluster = ""
     THEN Fail(k, "no target cluster available for restore")
     ELSE CreateOrUpdatePropagationPolicy(k, policy, fault)

restoreNameOf(backup) == backup.name \o <<"-restore">>

\* the CheckpointRestore createCheckpointRestore builds for a backup
restoreFor(backup) ==
  [name |-> restoreNameOf(backup),
   namespace |-> backup.namespace,
   spec |-> [backupRef |-> [name |-> backup.name],
             podName |-> backup.spec.podRef.name,
             podGenerateName |-> NoName,
             containers |-> backup.spec.containers,
             image |-> ""]]

createCheckpointRestore(k, backup, migration, fault) ==
  LET existing ==
        \E i \in 1..Len(k.restores) :
          /\ k.restores[i].name = restoreNameOf(backup)
          /\ k.restores[i].namespace = backup.namespace
  IN IF fault = "getRestore"
     THEN Fail(k, "failed to check existing CheckpointRestore")
     ELSE IF existing
     THEN k
     ELSE IF fault = "createRestore"
     THEN Fail(k, "failed to create CheckpointRestore")
     ELSE createRestorePropagationPolicy(
            [k EXCEPT !.restores = Append(@, restoreFor(backup))],
            restoreFor(backup), migration, fault)

\* the first loop of startRestoreProcess, from backup i on
RECURSIVE createRestores(_, _, _, _, _)
createRestores(k, backups, i, migration, fault) ==
  IF i > Len(backups)
  THEN k
  ELSE LET k1 == createCheckpointRestore(k, backups[i], migration, fault)
       IN IF k1.err # ""
          THEN k1
          ELSE createRestores(k1, backups, i + 1, migration, fault)

\* findWorkForResource: the index of the Work returned, 0 for NotFound
findWorkForResource(ws, resourceRef) ==
  First({i \in 1..Len(ws) :
           \E m \in 1..Len(ws[i].manifests) :
             sameResource(ws[i].manifests[m], resourceRef)})

\* the map updateWorkWithCheckpointImages builds: a later container of a
\* name overwrites an earlier one
RECURSIVE imagesOfContainers(_, _, _)
imagesOfContainers(images, containers, i) ==
  IF i > Len(containers)
  THEN images
  ELSE imagesOfContainers(
         (containers[i].name :> containers[i].image) @@ images,
         containers, i + 1)

RECURSIVE imagesOfBackups(_, _, _)
imagesOfBackups(images, backups, i) ==
  IF i > Len(backups)
  THEN images
  ELSE imagesOfBackups(
         imagesOfContainers(images, backups[i].spec.containers, 1),
         backups, i + 1)

checkpointImages(backups) == imagesOfBackups(<<>>, backups, 1)

updatePodContainerImages(manifest, images) ==
  LET containers == manifest.containers
  IN [manifest EXCEPT !.containers =
        [i \in 1..Len(containers) |->
           IF containers[i].name \in DOMAIN images
           THEN [containers[i] EXCEPT !.image = images[containers[i].name]]
           ELSE containers[i]]]

updateWorkWithCheckpointImages(k, w, backups, fault) ==
  LET images == checkpointImages(backups)
      manifests == k.works[w].manifests
      updated ==
        [k.works[w] EXCEPT !.manifests =
           [m \in 1..Len(manifests) |->
              IF manifests[m].kind = "Pod" /\ manifests[m].apiVersion = "v1"
              THEN updatePodContainerImages(manifests[m], images)
              ELSE manifests[m]]]
  IN IF fault = "updateWork"
     THEN Fail(k, "failed to update Work with checkpoint images")
     ELSE [k EXCEPT !.works[w] = updated]

handlePodRestore(k, migration, backups, fault) ==
  LET w == findWorkForResource(k.works, migration.spec.resourceRef)
  IN IF fault = "listWorks" \/ w = 0
     THEN Fail(k, "failed to find Work for pod")
     ELSE updateWorkWithCheckpointImages(k, w, backups, fault)

handleStatefulSetRestore(k, migration, backups) == k

startRestoreProcess(k, migration, sourceCluster, backups, fault) ==
  LET k1 == createRestores(k, backups, 1, migration, fault)
      kind == ToLower(migration.spec.resourceRef.kind)
  IN IF k1.err # ""
     THEN k1
     ELSE CASE kind = "pod" -> handlePodRestore(k1, migration, backups, fault)
            [] kind = "statefulset" ->
                 handleStatefulSetRestore(k1, migration, backups)
            [] OTHER -> k1

\* processSourceCluster once the binding tells that the cluster is gone
restoreFromBackups(k, migration, sourceCluster, fault) ==
  LET backups ==
        findCheckpointBackups(checkpointBackups,
                              migration.spec.resourceRef, sourceCluster)
  IN IF fault = "listBackups"
     THEN Fail(k, "failed to find checkpoint backups")
     ELSE IF Len(backups) = 0
     THEN k
     ELSE startRestoreProcess(k, migration, sourceCluster, backups, fault)

processSourceCluster(k, migration, sourceCluster, fault) ==
  LET b == findResourceBinding(resourceBindings,
                               migration.spec.resourceRef, sourceCluster)
  IN IF fault = "listBindings"
     THEN Fail(k, "failed to find resource binding")
     ELSE IF b = 0
     THEN k
     ELSE IF isSourceClusterStillAvailable(resourceBindings[b], sourceCluster)
     THEN k
     ELSE restoreFromBackups(k, migration, sourceCluster, fault)

\* the loop of Reconcile, from source cluster i on
RECURSIVE processSourceClusters(_, _, _, _)
processSourceClusters(k, migration, i, fault) ==
  IF i > Len(migration.spec.sourceClusters)
  THEN k
  ELSE LET k1 == processSourceCluster(k, migration,
                                      migration.spec.sourceClusters[i], fault)
       IN IF k1.err # ""
          THEN k1
          ELSE processSourceClusters(k1, migration, i + 1, fault)

\* what a pass leaves behind
Store(k) ==
  /\ checkpointRestores' = k.restores
  /\ propagationPolicies' = k.policies
  /\ works' = k.works
  /\ result' = IF k.err # "" THEN "error" ELSE "requeue"

\* MigrationRestoreReconciler.Reconcile
RestoreReconcile(fault) ==
  /\ UNCHANGED ceVars
  /\ passes' = passes + 1
  /\ IF ~statefulMigration.exists
     THEN /\ result' = "nil"
          /\ UNCHANGED <<checkpointRestores, propagationPolicies, works>>
     ELSE IF ~karmadaClient
     THEN /\ result' = "requeue"
          /\ UNCHANGED <<checkpointRestores, propagationPolicies, works>>
     ELSE Store(processSourceClusters(Plane, statefulMigration, 1, fault))
  /\ UNCHANGED <<statefulMigration, karmadaClient, resourceBindings,
                 checkpointBackups, deletedRestores, admission, admits>>

\* the federation scheduler changes the clusters of the binding
BindingClusterLists == {<<>>, <<"c1">>, <<"c2">>, <<"c1", "c2">>}

Reschedule(clusters) ==
  /\ UNCHANGED ceVars
  /\ Len(resourceBindings) > 0
  /\ resourceBindings[1].spec.clusters # clusters
  /\ resourceBindings' = [resourceBindings EXCEPT ![1].spec.clusters = clusters]
  /\ UNCHANGED <<statefulMigration, karmadaClient, checkpointBackups,
                 checkpointRestores, deletedRestores, propagationPolicies,
                 works, result, admission, passes, admits>>

\* somebody deletes the i-th CheckpointRestore
Remove(s, i) == SubSeq(s, 1, i - 1) \o SubSeq(s, i + 1, Len(s))

DeleteRestore(i) ==
  /\ UNCHANGED ceVars
  /\ i \in 1..Len(checkpointRestores)
  /\ checkpointRestores' = Remove(checkpointRestores, i)
  /\ deletedRestores' = deletedRestores \cup {checkpointRestores[i]}
  /\ UNCHANGED <<statefulMigration, karmadaClient, resourceBindings,
                 checkpointBackups, propagationPolicies, works, result,
                 admission, passes, admits>>

(***************************************************************************)
(* The image-rewriting webhook (handleMutate)                              *)
(***************************************************************************)
\* nameMatch of handleMutate, for the spec of one CheckpointRestore
nameMatch(spec, targetName, genPrefix) ==
  \/ targetName # NoName /\ spec.podName = targetName
  \/ genPrefix # NoName /\ spec.podGenerateName # NoName
       /\ HasPrefix(spec.podGenerateName, genPrefix)
  \/ genPrefix # NoName /\ spec.podName # NoName
       /\ HasPrefix(spec.podName, genPrefix)

\* imageMap, from spec.containers[] from entry i on
RECURSIVE imageMapOf(_, _, _)
imageMapOf(images, containers, i) ==
  IF i > Len(containers)
  THEN images
  ELSE imageMapOf(
         IF containers[i].image # "" /\ containers[i].name # ""
         THEN (containers[i].name :> containers[i].image) @@ images
         ELSE images,
         containers, i + 1)

\* defaultImage: the first image of spec.containers[], else spec.image
defaultImageOf(spec) ==
  LET withImage ==
        {i \in 1..Len(spec.containers) : spec.containers[i].image # ""}
  IN IF withImage # {}
     THEN spec.containers[First(withImage)].image
     ELSE spec.image

\* the patches for one container list, from container i on
RECURSIVE patchesOf(_, _, _, _, _)
patchesOf(containers, path, i, images, defaultImage) ==
  IF i > Len(containers)
  THEN <<>>
  ELSE LET mapped == IF containers[i].name \in DOMAIN images
                     THEN images[containers[i].name]
                     ELSE ""
           want == IF mapped = "" THEN defaultImage ELSE mapped
           rest == patchesOf(containers, path, i + 1, images, defaultImage)
       IN IF want = "" \/ containers[i].image = want
          THEN rest
          ELSE <<[op |-> "replace", path |-> <<path, i - 1>>,
                  value |-> want]>> \o rest

\* writeResponse: an AdmissionReview with Allowed true, in a 200 reply
writeResponse(patch) == [code |-> 200, allowed |-> TRUE, patch |-> patch]

\* http.Error: a reply without an AdmissionReview
httpError(code) == [code |-> code, allowed |-> FALSE, patch |-> <<>>]

\* handleMutate, for a request whose review the server could parse; items
\* is what the API server stores, outcome tells what goes wrong: "badPod"
\* when the pod object cannot be parsed, "fail" when the List call fails
handleMutate(request, items, outcome) ==
  LET inNamespace(it) == it.namespace = request.namespace
      crList == SelectSeq(items, inNamespace)
      matched ==
        First({i \in 1..Len(crList) :
                 nameMatch(crList[i].spec, request.object.name,
                           request.object.generateName)})
      images == IF matched = 0
                THEN <<>>
                ELSE imageMapOf(<<>>, crList[matched].spec.containers, 1)
      defaultImage == IF matched = 0
                      THEN ""
                      ELSE defaultImageOf(crList[matched].spec)
      patches ==
        patchesOf(request.object.containers, "/spec/containers", 1,
                  images, defaultImage)
          \o patchesOf(request.object.initContainers,
                       "/spec/initContainers", 1, images, defaultImage)
  IN IF \/ request.kind # "Pod"
        \/ request.version # "v1"
        \/ request.operation # "CREATE"
     THEN writeResponse(<<>>)
     ELSE IF outcome = "badPod"
     THEN httpError(400)
     ELSE IF outcome # "ok"
     THEN writeResponse(<<>>)
     ELSE IF DOMAIN images = {} /\ defaultImage = ""
     THEN writeResponse(<<>>)
     ELSE writeResponse(patches)

\* the API server asks the webhook about a request
Admit(request, outcome) ==
  /\ UNCHANGED ceVars
  /\ admits' = admits + 1
  /\ admission' =
       [handler |-> "handleMutate", request |-> request,
        outcome |-> outcome]
         @@ handleMutate(request, checkpointRestores, outcome)
  /\ UNCHANGED <<statefulMigration, karmadaClient, resourceBindings,
                 checkpointBackups, checkpointRestores, deletedRestores,
                 propagationPolicies, works, result, passes>>

(***************************************************************************)
(* The pod mutator of the manager (PodMutator)                             *)
(***************************************************************************)
\* an image string as an image name: the engine records the built image
\* of the spec's image string s as <<s, "", 0>>
imageOf(s) == <<s, "", 0>>

isPodFromJob(admitted) ==
  \E i \in 1..Len(admitted.ownerReferences) :
    /\ admitted.ownerReferences[i].kind = "Job"
    /\ admitted.ownerReferences[i].apiVersion = "batch/v1"

getJobName(admitted) ==
  LET jobs == {i \in 1..Len(admitted.ownerReferences) :
                 /\ admitted.ownerReferences[i].kind = "Job"
                 /\ admitted.ownerReferences[i].apiVersion = "batch/v1"}
  IN IF jobs = {} THEN NoName ELSE admitted.ownerReferences[First(jobs)].name

doesResourceRefMatchJob(resourceRef, jobName, namespace) ==
  IF resourceRef.kind = "Job" /\ resourceRef.apiVersion = "batch/v1"
  THEN LET refNamespace == IF resourceRef.namespace = ""
                           THEN namespace
                           ELSE resourceRef.namespace
       IN resourceRef.name = jobName /\ refNamespace = namespace
  ELSE IF resourceRef.kind = "CronJob" /\ resourceRef.apiVersion = "batch/v1"
  THEN HasPrefix(jobName, resourceRef.name \o <<"-">>)
  ELSE FALSE

\* findMatchingCheckpointBackup: the index of the backup returned, 0 for nil
findMatchingCheckpointBackup(backups, namespace, jobName) ==
  First({i \in 1..Len(backups) :
           /\ backups[i].namespace = namespace
           /\ doesResourceRefMatchJob(backups[i].spec.resourceRef, jobName,
                                      namespace)})

\* the first loop of generateImagePatches, from container i on
RECURSIVE imagesFromSpec(_, _, _)
imagesFromSpec(images, containers, i) ==
  IF i > Len(containers)
  THEN images
  ELSE imagesFromSpec(
         IF containers[i].image # ""
         THEN (containers[i].name :> imageOf(containers[i].image)) @@ images
         ELSE images,
         containers, i + 1)

\* the second loop of generateImagePatches, from built image i on
RECURSIVE imagesFromStatus(_, _, _)
imagesFromStatus(images, builtImages, i) ==
  IF i > Len(builtImages)
  THEN images
  ELSE imagesFromStatus(
         IF /\ builtImages[i].containerName \notin DOMAIN images
            /\ builtImages[i].imageName # imageOf("")
         THEN images @@ (builtImages[i].containerName
                           :> builtImages[i].imageName)
         ELSE images,
         builtImages, i + 1)

\* a map that looks at the spec alone
imageMapFromSpec(backup) == imagesFromSpec(<<>>, backup.spec.containers, 1)

\* imageMap of generateImagePatches
imageMap(backup) ==
  imagesFromStatus(imagesFromSpec(<<>>, backup.spec.containers, 1),
                   backup.status.builtImages, 1)

\* the third loop of generateImagePatches, from container i on
RECURSIVE imagePatches(_, _, _)
imagePatches(containers, images, i) ==
  IF i > Len(containers)
  THEN <<>>
  ELSE (IF containers[i].name \in DOMAIN images
        THEN <<[op |-> "replace", path |-> <<"/spec/containers", i - 1>>,
                value |-> images[containers[i].name]]>>
        ELSE <<>>)
         \o imagePatches(containers, images, i + 1)

generateImagePatches(admitted, backup) ==
  imagePatches(admitted.containers, imageMap(backup), 1)

\* admission.Allowed and admission.Errored
Allowed == [code |-> 200, allowed |-> TRUE, patch |-> <<>>]

Errored(code) == [code |-> code, allowed |-> FALSE, patch |-> <<>>]

\* admission.PatchResponseFromRaw(original, current): the response that
\* patches the document original into the document current.  Handle passes
\* the marshalled list of patches as current; a list is no object, and the
\* JSON-patch library either refuses it or replaces the whole document
JsonPatchLibs == {"replaceRoot", "badDoc"}

PatchResponseFromRaw(original, current, lib) ==
  IF lib = "badDoc"
  THEN Errored(500)
  ELSE [code |-> 200, allowed |-> TRUE,
        patch |-> <<[op |-> "replace", path |-> <<"">>, value |-> current]>>]

\* PodMutator.Handle; items is what the API server stores, outcome tells
\* what goes wrong: "badPod" when the pod cannot be decoded, "fail" when
\* the List call fails
Handle(request, items, outcome, lib) ==
  LET admitted == request.object
      jobName == getJobName(admitted)
      b == findMatchingCheckpointBackup(items, request.namespace, jobName)
      patches == generateImagePatches(admitted, items[b])
  IN IF outcome = "badPod"
     THEN Errored(400)
     ELSE IF ~isPodFromJob(admitted)
     THEN Allowed
     ELSE IF jobName = NoName
     THEN Allowed
     ELSE IF outcome = "fail"
     THEN Errored(500)
     ELSE IF b = 0
     THEN Allowed
     ELSE IF Len(patches) = 0
     THEN Allowed
     ELSE PatchResponseFromRaw(admitted, patches, lib)

\* the API server asks the pod mutator about the creation of a pod
Mutate(request, outcome, lib) ==
  /\ UNCHANGED ceVars
  /\ admits' = admits + 1
  /\ admission' =
       [handler |-> "PodMutator", request |-> request, outcome |-> outcome]
         @@ Handle(request, checkpointBackups, outcome, lib)
  /\ UNCHANGED <<statefulMigration, karmadaClient, resourceBindings,
                 checkpointBackups, checkpointRestores, deletedRestores,
                 propagationPolicies, works, result, passes>>

(***************************************************************************)
(* Specifications                                                          *)
(***************************************************************************)
\* the steps of Reconcile up to the local-pod check, for the workers in T
Reconciler(T) ==
  \/ \E th \in T : th[2] = "rec" /\ AddFinalizer(th[1])
  \/ \E th \in T : th[2] = "rec" /\ IsPodOnThisNode(th[1])
  \/ \E th \in T : th[2] = "rec" /\ ReconcileNormal(th[1])

\* the record of the cron entry that reconcileNormal has added
Scheduling(T) ==
  \E th \in T : th[2] = "rec" /\ RecordScheduledJob(th[1])

\* the capture pipeline of the workers in T; the node agent and the image
\* builder answer with an outcome of O
Pipeline(T, O) ==
  \/ \E th \in T : PerformCheckpoint(th)
  \/ \E th \in T : CheckpointContainer(th)
  \/ \E th \in T, o \in O : Kubelet(th, o)
  \/ \E th \in T : Verify(th)
  \/ \E th \in T, o \in O \ {"malformed"} : Build(th, o)
  \/ \E th \in T : Cleanup(th)
  \/ \E th \in T : MutGet(th)
  \/ \E th \in T : MutUpdate(th)

\* the registry push and the pod deletion, with an outcome of O
Registry(T, O) ==
  \E th \in T, o \in O \ {"malformed"} : Push(th, o)

StopPod(T, O) ==
  \/ \E th \in T, o \in O \ {"malformed"} : DeletePod(th, o)
  \/ \E th \in T : LookupScheduledJob(th)
  \/ \E th \in T : RemoveScheduledJob(th)

\* the deletion branch of Reconcile
Deletion(T) ==
  \/ \E th \in T : th[2] = "rec" /\ ReconcileDelete(th[1])
  \/ \E th \in T : th[2] = "rec" /\ ReconcileNotFound(th[1])

\* one controller process with its reconcile worker only; the API server,
\* the node agent, the builder and the registry fail, the process crashes
InitFaults == Init

NextFaults ==
  \/ Reconciler({Rec("n1")})
  \/ Scheduling({Rec("n1")})
  \/ Pipeline({Rec("n1")}, Outcomes)
  \/ Registry({Rec("n1")}, Outcomes)
  \/ StopPod({Rec("n1")}, Outcomes)
  \/ reconciles < FaultsMaxReconciles /\ ReconcileGet("n1")
  \/ apiErrors < MaxApiErrors /\ MutFail(Rec("n1"))
  \/ apiErrors < MaxApiErrors /\ IsPodOnThisNodeFail("n1")
  \/ crashes < MaxCrashes /\ Crash("n1")
  \/ clock < MaxClock /\ Tick
  \/ PodRun

SpecFaults == InitFaults /\ [][NextFaults]_vars

\* one controller process with its reconcile worker and its cron
\* scheduler, for the requests with a cron schedule and stopPod false
InitCron ==
  /\ Init
  /\ obj.spec.schedule = "cron"
  /\ ~obj.spec.stopPod

NextCron ==
  \/ Reconciler({"n1"} \X Kinds)
  \/ Scheduling({"n1"} \X Kinds)
  \/ Pipeline({"n1"} \X Kinds, Outcomes)
  \/ Registry({"n1"} \X Kinds, Outcomes)
  \/ reconciles < CronMaxReconciles /\ ReconcileGet("n1")
  \/ fires < CronMaxFires /\ CronFire(Cron("n1"))
  \/ PodRun

SpecCron == InitCron /\ [][NextCron]_vars

\* the controller processes of both nodes while the request is deleted;
\* the pod stays on n1
InitDelete ==
  /\ Init
  /\ ~obj.spec.stopPod
  /\ ~obj.spec.registry
  /\ obj.spec.containers = <<>>

NextDelete ==
  \/ Reconciler(Threads)
  \/ Scheduling(Threads)
  \/ Pipeline(Threads, {"ok"})
  \/ Deletion(Threads)
  \/ reconciles < DeleteMaxReconciles /\ \E n \in Nodes : ReconcileGet(n)
  \/ fires < DeleteMaxFires /\ \E n \in Nodes : CronFire(Cron(n))
  \/ PodRun
  \/ UserDelete

SpecDelete == InitDelete /\ [][NextDelete]_vars

\* the controller processes of both nodes while the pod is deleted and
\* created again under the same name on either node
InitMove ==
  /\ Init
  /\ obj.spec.schedule = "cron"
  /\ ~obj.spec.stopPod
  /\ ~obj.spec.registry
  /\ obj.spec.containers = <<>>

NextMove ==
  \/ Reconciler(Threads)
  \/ Scheduling(Threads)
  \/ Pipeline(Threads, {"ok"})
  \/ reconciles < MoveMaxReconciles /\ \E n \in Nodes : ReconcileGet(n)
  \/ fires < MoveMaxFires /\ \E n \in Nodes : CronFire(Cron(n))
  \/ podGen < MaxPodGen /\ \E n \in Nodes : PodCreate(n)
  \/ PodRun
  \/ PodGone

SpecMove == InitMove /\ [][NextMove]_vars


\* one controller process with its reconcile worker and its cron
\* scheduler, for the requests with a cron schedule and stopPod true; the
\* owner of the pod creates it again under the same name on the same node
InitStop ==
  /\ Init
  /\ obj.spec.schedule = "cron"
  /\ obj.spec.stopPod
  /\ ~obj.spec.registry
  /\ obj.spec.containers = <<>>

NextStop ==
  \/ Reconciler({"n1"} \X Kinds)
  \/ Scheduling({"n1"} \X Kinds)
  \/ Pipeline({"n1"} \X Kinds, Outcomes)
  \/ StopPod({"n1"} \X Kinds, Outcomes)
  \/ reconciles < StopMaxReconciles /\ ReconcileGet("n1")
  \/ fires < StopMaxFires /\ CronFire(Cron("n1"))
  \/ podGen < StopMaxPodGen /\ PodCreate("n1")
  \/ crashes < StopMaxCrashes /\ ScheduledJobsRace("n1")
  \/ PodRun

SpecStop == InitStop /\ [][NextStop]_vars

\* one controller process with its reconcile worker and its cron
\* scheduler, while the user changes the schedule of a cron request to
\* "immediately"
InitEdit ==
  /\ Init
  /\ obj.spec.schedule = "cron"
  /\ ~obj.spec.stopPod
  /\ ~obj.spec.registry
  /\ obj.spec.containers = <<>>

NextEdit ==
  \/ Reconciler({Rec("n1")})
  \/ Scheduling({Rec("n1")})
  \/ Pipeline({"n1"} \X Kinds, {"ok"})
  \/ reconciles < EditMaxReconciles /\ ReconcileGet("n1")
  \/ fires < EditMaxFires /\ CronFire(Cron("n1"))
  \/ PodRun
  \/ UserReschedule

SpecEdit == InitEdit /\ [][NextEdit]_vars

\* one controller process whose reconciles are started by its workqueue:
\* the controller is set up with For(&CheckpointBackup{}) and nothing else
\* (SetupWithManager), so the key of the object is queued when the object
\* is created or written; no step fails, and the request is not changed by
\* anyone but the controller
Dequeue(n) == n \in queue /\ ReconcileGet(n)

\* the pod of the request is absent or not yet Running
InitLive ==
  /\ InitController
  /\ NoFederation
  /\ pod \in {NoPod, [exists |-> TRUE, node |-> "n1", phase |-> "Pending"]}
  /\ obj.spec.schedule = "immediately"
  /\ ~obj.spec.stopPod

NextLive ==
  \/ Reconciler({Rec("n1")})
  \/ Pipeline({Rec("n1")}, {"ok"})
  \/ Registry({Rec("n1")}, {"ok"})
  \/ Dequeue("n1")
  \/ Requeue("n1")
  \/ podGen < LiveMaxPodGen /\ PodCreate("n1")
  \/ PodRun

\* the worker goroutine runs a queued reconcile and every step of it to
\* its end, and the pod becomes Running. A Reconcile that found the pod
\* absent or not Running returns ctrl.Result{} with a nil error (lines
\* 150-160, 505-506, 605-608) and the controller watches no Pod, so
\* nothing the controller does puts the key on the queue again: Requeue
\* can happen and is not bound to
FairLive ==
  /\ WF_vars(Reconciler({Rec("n1")}))
  /\ WF_vars(Pipeline({Rec("n1")}, {"ok"}))
  /\ WF_vars(Registry({Rec("n1")}, {"ok"}))
  /\ WF_vars(Dequeue("n1"))
  /\ WF_vars(PodRun)

SpecLive == InitLive /\ [][NextLive]_vars /\ FairLive

\* one controller process that reconciles the CheckpointBackup, which
\* names a registry, and other CheckpointBackups with a registry; no step
\* fails
InitRegistry ==
  /\ Init
  /\ obj.spec.schedule = "immediately"
  /\ obj.spec.registry
  /\ ~obj.spec.stopPod

NextRegistry ==
  \/ Reconciler({Rec("n1")})
  \/ Pipeline({Rec("n1")}, {"ok"})
  \/ Registry({Rec("n1")}, {"ok"})
  \/ reconciles < RegistryMaxReconciles /\ ReconcileGet("n1")
  \/ \E c \in OtherRegistries : ReconcileOther("n1", c)
  \/ PodRun

SpecRegistry == InitRegistry /\ [][NextRegistry]_vars

\* one controller process whose cron entry fires while the run of an
\* earlier firing is still going on; no step fails
InitOverlap ==
  /\ Init
  /\ obj.spec.schedule = "cron"
  /\ ~obj.spec.stopPod
  /\ ~obj.spec.registry
  /\ obj.spec.containers = <<>>

NextOverlap ==
  \/ Reconciler({Rec("n1")})
  \/ Scheduling({Rec("n1")})
  \/ Pipeline({"n1"} \X Kinds, {"ok"})
  \/ reconciles < OverlapMaxReconciles /\ ReconcileGet("n1")
  \/ fires < OverlapMaxFires /\ \E th \in {Cron("n1"), Cron2("n1")} : CronFire(th)
  \/ PodRun

SpecOverlap == InitOverlap /\ [][NextOverlap]_vars

(***************************************************************************)
(* The control plane: restore reconciler, federation scheduler, webhook    *)
(***************************************************************************)
\* the backups of the control plane were written by the checkpoint engine
\* of a member cluster: never touched, or captured to the end at second 0
\* (per container the checkpoint file, then the built image)
RECURSIVE recordAll(_, _, _)
recordAll(latest, todo, i) ==
  IF i > Len(todo)
  THEN latest
  ELSE recordAll(
         recordBuiltImage(
           recordCheckpointFile(latest, todo[i].name, <<todo[i].name, 0>>),
           todo[i].name, resolveImageName(latest.spec, todo[i], 0),
           latest.spec.registry),
         todo, i + 1)

Captured(sp) ==
  updatePhase(
    recordAll([BlankObj EXCEPT !.exists = TRUE, !.finalizer = TRUE,
                               !.spec = sp],
              containersToProcess(sp), 1),
    PhaseCompleted, PhaseMessages["phCompleted"])

BackupSpecs == {sp \in Specs : sp.schedule = "immediately" /\ ~sp.stopPod}

PodRefs == [name : {<<"w">>}, namespace : Namespaces]

Backups ==
  { [name |-> <<"bk">>, namespace |-> "t",
     spec |-> [resourceRef |-> ref, podRef |-> podRef] @@ sp,
     status |-> st] :
      ref \in ResourceRefs, podRef \in PodRefs, sp \in BackupSpecs,
      st \in {EmptyStatus} } \cup
  { [name |-> <<"bk">>, namespace |-> "t",
     spec |-> [resourceRef |-> ref, podRef |-> podRef] @@ sp,
     status |-> Captured(sp).status] :
      ref \in ResourceRefs, podRef \in PodRefs, sp \in BackupSpecs }

Migrations ==
  { [exists |-> TRUE,
     spec |-> [resourceRef |-> ref, sourceClusters |-> cs]] :
      ref \in ResourceRefs, cs \in ClusterLists }

Bindings ==
  { [name |-> <<"w", "-binding">>,
     spec |-> [resource |-> ref, clusters |-> cs]] :
      ref \in ResourceRefs, cs \in BindingClusterLists }

\* the Work of the pod w of namespace t, and the Work of the StatefulSet
Works ==
  { [name |-> <<"w", "-work">>,
     manifests |->
       <<[apiVersion |-> "v1", kind |-> "Pod", name |-> <<"w">>,
          namespace |-> "t",
          containers |-> <<[name |-> "a", image |-> "nginx"],
                           [name |-> "b", image |-> "redis"]>>]>>],
    [name |-> <<"w", "-work">>,
     manifests |->
       <<[apiVersion |-> "apps/v1", kind |-> "StatefulSet",
          name |-> <<"w">>, namespace |-> "t", containers |-> <<>>]>>] }

\* CheckpointRestores somebody has created by hand: one for the pod w,
\* one for the pods whose generateName starts with w
HandMadeRestores ==
  << [name |-> <<"bk", "-restore">>, namespace |-> "t",
      spec |-> [backupRef |-> [name |-> <<"bk">>], podName |-> <<"w">>,
                podGenerateName |-> NoName,
                containers |-> <<[name |-> "a", image |-> "repo/ckpt-a"]>>,
                image |-> ""]],
     [name |-> <<"r">>, namespace |-> "t",
      spec |-> [backupRef |-> [name |-> <<"bk">>], podName |-> NoName,
                podGenerateName |-> <<"w", "-">>,
                containers |-> <<>>, image |-> "img"]] >>

RestoreLists ==
  {<<>>, <<HandMadeRestores[1]>>, <<HandMadeRestores[2]>>, HandMadeRestores}

\* the pods the API server asks the webhook about
AdmittedPods ==
  { [name |-> <<"w">>, generateName |-> NoName,
     ownerReferences |-> <<>>,
     containers |-> <<[name |-> "a", image |-> "nginx"]>>,
     initContainers |-> <<>>],
    [name |-> NoName, generateName |-> <<"w">>,
     ownerReferences |-> <<>>,
     containers |-> <<[name |-> "a", image |-> "nginx"],
                      [name |-> "b", image |-> "redis"]>>,
     initContainers |-> <<[name |-> "i", image |-> "busybox"]>>],
    [name |-> <<"w">>, generateName |-> NoName,
     ownerReferences |-> <<>>,
     containers |-> <<[name |-> "a", image |-> "repo/ckpt-a"]>>,
     initContainers |-> <<>>] }

Requests ==
  { [kind |-> "Pod", version |-> "v1", operation |-> "CREATE",
     namespace |-> "t", object |-> p] : p \in AdmittedPods }
  \cup
  { [kind |-> r[1], version |-> "v1", operation |-> r[2],
     namespace |-> r[3],
     object |-> [name |-> <<"w">>, generateName |-> NoName,
                 ownerReferences |-> <<>>,
                 containers |-> <<[name |-> "a", image |-> "nginx"]>>,
                 initContainers |-> <<>>]] :
      r \in {<<"Pod", "UPDATE", "t">>, <<"Deployment", "CREATE", "t">>,
              <<"Pod", "CREATE", "u">>} }

\* the control plane with one migration of the pod w, its binding, a
\* backup, and possibly hand-made CheckpointRestores
InitRO ==
  /\ InitEngine /\ obj.spec = BlankObj.spec
  /\ statefulMigration \in
       {m \in Migrations : m.spec.resourceRef.namespace = "t"}
  /\ karmadaClient \in BOOLEAN
  /\ resourceBindings \in
       {<<>>} \cup {<<b>> : b \in {c \in Bindings : c.spec.clusters = <<"c1", "c2">>}}
  /\ checkpointBackups \in
       {<<>>} \cup {<<b>> : b \in {c \in Backups :
                                     /\ c.spec.resourceRef.namespace = "t"
                                     /\ c.spec.podRef.namespace = "t"
                                     /\ c.spec.containers # <<>>
                                     /\ c.spec.containers[1].image # ""
                                     /\ c.status # EmptyStatus}}
  /\ checkpointRestores \in RestoreLists
  /\ deletedRestores = {}
  /\ propagationPolicies = {}
  /\ works \in {<<w>> : w \in Works}
  /\ result = "none"
  /\ admission = NoAdmission
  /\ passes = 0
  /\ admits = 0

NextRO ==
  \/ \E fault \in {"none", "listBindings"} :
       passes < MaxPasses /\ RestoreReconcile(fault)
  \/ \E clusters \in BindingClusterLists : Reschedule(clusters)
  \/ \E i \in 1..MaxRestores : DeleteRestore(i)
  \/ \E request \in Requests, outcome \in {"ok", "fail"} :
       admits < MaxAdmits /\ Admit(request, outcome)

SpecRO == InitRO /\ [][NextRO]_vars

\* the control plane with any migration, one binding, backups of every
\* kind (captured or not, images in the spec or in the status only),
\* CheckpointRestores made by hand or none, and the Work or none; the
\* federation scheduler changes the clusters of the binding while the
\* reconciler polls
InitRestore ==
  /\ InitEngine /\ obj.spec = BlankObj.spec
  /\ statefulMigration \in Migrations
  /\ karmadaClient = TRUE
  /\ resourceBindings \in {<<b>> : b \in Bindings}
  /\ checkpointBackups \in {<<>>} \cup {<<b>> : b \in Backups}
  /\ checkpointRestores \in {<<>>, <<HandMadeRestores[1]>>}
  /\ deletedRestores = {}
  /\ propagationPolicies = {}
  /\ works \in {<<>>} \cup {<<w>> : w \in Works}
  /\ result = "none"
  /\ admission = NoAdmission
  /\ passes = 0
  /\ admits = 0

NextRestore ==
  \/ \E fault \in Faults :
       passes < RestoreMaxPasses /\ RestoreReconcile(fault)
  \/ \E clusters \in BindingClusterLists : Reschedule(clusters)
  \/ \E i \in 1..MaxRestores : DeleteRestore(i)

SpecRestore == InitRestore /\ [][NextRestore]_vars

(***************************************************************************)
(* The two admission webhooks                                              *)
(***************************************************************************)
\* a second capture of a captured backup, one second later, by a run that
\* holds the object as it was before the first capture: the new file is
\* recorded, and the image unless one of the same name is recorded
RECURSIVE recordAgain(_, _, _)
recordAgain(latest, todo, i) ==
  IF i > Len(todo)
  THEN latest
  ELSE LET filed == recordCheckpointFile(latest, todo[i].name,
                                         <<todo[i].name, 1>>)
       IN recordAgain(
            IF imageAlreadyRecorded(filed, todo[i].name,
                                    resolveImageName(latest.spec, todo[i], 1))
            THEN filed
            ELSE recordBuiltImage(filed, todo[i].name,
                                  resolveImageName(latest.spec, todo[i], 1),
                                  latest.spec.registry),
            todo, i + 1)

CapturedTwice(sp) == recordAgain(Captured(sp), containersToProcess(sp), 1)

\* what CheckpointBackup.Spec.ResourceRef can be for the pods of Jobs
JobRefs ==
  { [apiVersion |-> "batch/v1", kind |-> "Job", name |-> <<"j">>,
     namespace |-> ns] : ns \in {"", "t", "u"} }
  \cup
  { [apiVersion |-> "batch/v1", kind |-> "CronJob", name |-> <<"cj">>,
     namespace |-> "t"],
    [apiVersion |-> "batch/v1beta1", kind |-> "Job", name |-> <<"j">>,
     namespace |-> "t"],
    [apiVersion |-> "v1", kind |-> "Pod", name |-> <<"w">>,
     namespace |-> "t"] }

JobBackups ==
  { [name |-> <<"bk">>, namespace |-> "t",
     spec |-> [resourceRef |-> ref,
               podRef |-> [name |-> <<"w">>, namespace |-> "t"]] @@ sp,
     status |-> st] :
      ref \in JobRefs, sp \in BackupSpecs, st \in {EmptyStatus} }
  \cup
  { [name |-> <<"bk">>, namespace |-> "t",
     spec |-> [resourceRef |-> ref,
               podRef |-> [name |-> <<"w">>, namespace |-> "t"]] @@ sp,
     status |-> o.status] :
      ref \in JobRefs, sp \in BackupSpecs,
      o \in UNION {{Captured(x), CapturedTwice(x)} : x \in BackupSpecs} }

OwnerLists ==
  { <<>>,
    <<[apiVersion |-> "batch/v1", kind |-> "Job", name |-> <<"j">>]>>,
    <<[apiVersion |-> "apps/v1", kind |-> "ReplicaSet", name |-> <<"rs">>],
      [apiVersion |-> "batch/v1", kind |-> "Job",
       name |-> <<"cj", "-", "1">>]>>,
    <<[apiVersion |-> "apps/v1", kind |-> "ReplicaSet",
       name |-> <<"j">>]>> }

JobPods ==
  { [name |-> <<"w">>, generateName |-> NoName,
     ownerReferences |-> owners,
     containers |-> cs[1],
     initContainers |-> cs[2]] :
      owners \in OwnerLists,
      cs \in { << <<[name |-> "a", image |-> "nginx"]>>, <<>> >>,
               << <<[name |-> "a", image |-> "repo/ckpt-a"]>>, <<>> >>,
               << <<[name |-> "b", image |-> "redis"],
                    [name |-> "a", image |-> "nginx"]>>, <<>> >>,
               << <<[name |-> "b", image |-> "redis"]>>,
                  <<[name |-> "a", image |-> "nginx"]>> >> } }

JobRequests ==
  { [kind |-> "Pod", version |-> "v1", operation |-> "CREATE",
     namespace |-> "t", object |-> p] : p \in JobPods }

\* the API server with a CheckpointBackup and CheckpointRestores
InitIRA ==
  /\ InitEngine /\ obj.spec = BlankObj.spec
  /\ statefulMigration = NoMigration
  /\ karmadaClient = FALSE
  /\ resourceBindings = <<>>
  /\ checkpointBackups \in {<<>>} \cup {<<b>> : b \in JobBackups}
  /\ checkpointRestores \in RestoreLists
  /\ deletedRestores = {}
  /\ propagationPolicies = {}
  /\ works = <<>>
  /\ result = "none"
  /\ admission = NoAdmission
  /\ passes = 0
  /\ admits = 0

NextIRA ==
  \/ \E request \in JobRequests, outcome \in {"ok", "fail", "badPod"} :
       admits < IRAMaxAdmits /\ Admit(request, outcome)
  \/ \E request \in JobRequests, outcome \in {"ok", "fail", "badPod"},
        lib \in JsonPatchLibs :
       admits < IRAMaxAdmits /\ Mutate(request, outcome, lib)

SpecIRA == InitIRA /\ [][NextIRA]_vars

(***************************************************************************)
(* Properties                                                              *)
(***************************************************************************)
\* C1: a Reconcile by the controller of a node that does not run the
\* referenced pod writes nothing to the request: no finalizer is added,
\* none is removed, the status is not written.  (Under SpecDelete the pod
\* never leaves n1.)
NonLocalReconcileWritesNothing ==
  [][\A n \in Nodes :
       (/\ ~isPodOnThisNode(n)
        /\ pod' = pod
        /\ <<pc'[Rec(n)], loc'[Rec(n)]>> # <<pc[Rec(n)], loc[Rec(n)]>>)
       => obj' = obj]_vars

\* C2: a capture started by a cron entry an earlier reconcile registered
\* starts (and so calls the node agent and writes the status) only in the
\* controller of the node the pod is scheduled on.
CronCaptureOnlyOnPodNode ==
  [][\A n \in Nodes :
       (/\ pc[Cron(n)] = "performCheckpoint"
        /\ pc'[Cron(n)] \notin {"performCheckpoint", "idle"})
       => isPodOnThisNode(n)]_vars

\* C3: once the stored phase is Completed, CompletedPodDeleted,
\* CompletedWithError or Failed, no reconcile and no cron invocation that
\* holds this phase in its copy of the request starts the capture pipeline.
TerminalPhaseNotReprocessed ==
  [][\A th \in Threads :
       (/\ pc[th] = "performCheckpoint"
        /\ pc'[th] \notin {"performCheckpoint", "idle"}
        /\ Backup(th).status.phase = obj.status.phase)
       => obj.status.phase \notin
            {PhaseCompleted, PhaseCompletedPodDeleted,
             PhaseCompletedWithError, PhaseFailed}]_vars

\* C4: with schedule "immediately" and a controller process that keeps
\* running, the node agent is asked at most once for a checkpoint of a
\* container, whatever the number of reconciles, failed status writes and
\* failed captures.
ImmediatelyFiresOnce ==
  (obj.spec.schedule = "immediately" /\ crashes = 0)
    => \A c \in DOMAIN calls : calls[c] <= 1

\* C5: with a cron schedule and stopPod false, the cron entry that fires
\* after a capture has reached Completed, while the pod is Running on the
\* node of the controller, invokes performCheckpoint with a request on
\* which the pipeline runs (one that performCheckpoint does not skip).
CronFiringsRecur ==
  [][\A n \in Nodes :
       (/\ pc[Cron(n)] = "idle"
        /\ pc'[Cron(n)] = "performCheckpoint"
        /\ pc[Rec(n)] = "idle"
        /\ isPodOnThisNode(n) /\ pod.phase = "Running"
        /\ obj.exists /\ obj.status.phase = PhaseCompleted
        /\ obj.spec.schedule = "cron" /\ ~obj.spec.stopPod)
       => ~phaseGuardSkips(heap'[n][loc'[Cron(n)].b])]_vars

\* C6: after a restart of the controller, a reconcile that finds the
\* stored phase Checkpointed, a checkpointFiles entry of a container whose
\* file is on the disk of the node, and no built image of that container,
\* does not return before it has built the image.
ResumeAfterRestart ==
  [][~(/\ crashes > 0 /\ crashes' = crashes
       /\ apiErrors' = apiErrors /\ obj.spec.schedule # "bad"
       /\ pc[Rec("n1")] \in {"isPodOnThisNode", "reconcileNormal",
                             "recordJob", "performCheckpoint"}
       /\ pc'[Rec("n1")] = "idle"
       /\ pod' = pod /\ isPodOnThisNode("n1") /\ pod.phase = "Running"
       /\ obj.exists /\ obj.status.phase = PhaseCheckpointed
       /\ \E k \in 1..Len(obj.status.checkpointFiles) :
            /\ obj.status.checkpointFiles[k].filePath \in disk["n1"]
            /\ ~imageAlreadyBuilt(obj,
                  obj.status.checkpointFiles[k].containerName))]_vars

\* C7: when the request is gone (its finalizer has been removed while it
\* was under deletion), the scheduler of no controller holds an entry for
\* the request.
NoEntryAfterFinalizerRemoval ==
  ~obj.exists => \A n \in Nodes : sched[n] = {}

\* C8: when the stored phase is Completed, status.builtImages has one
\* entry per processed container, and an entry is marked pushed exactly
\* when the request names a registry.
CompletedHasAllImages ==
  (obj.exists /\ obj.status.phase = PhaseCompleted) =>
    /\ Len(obj.status.builtImages) = Len(containersToProcess(obj.spec))
    /\ \A k \in 1..Len(obj.status.builtImages) :
         obj.status.builtImages[k].pushed <=> obj.spec.registry

\* C9: for every entry of status.checkpointFiles exactly one of the two
\* holds: its file is on the disk of a node, or a built image of its
\* container is recorded.
FileOrImage ==
  \A k \in 1..Len(obj.status.checkpointFiles) :
    LET e == obj.status.checkpointFiles[k] IN
    (\E n \in Nodes : e.filePath \in disk[n])
      # imageAlreadyBuilt(obj, e.containerName)

\* C10: status.builtImages never holds two entries with the same container
\* name and image name, and status.checkpointFiles never holds two entries
\* with the same container name and file path.
NoDuplicateRecords ==
  /\ \A j, k \in 1..Len(obj.status.builtImages) :
       (/\ obj.status.builtImages[j].containerName =
             obj.status.builtImages[k].containerName
        /\ obj.status.builtImages[j].imageName =
             obj.status.builtImages[k].imageName) => j = k
  /\ \A j, k \in 1..Len(obj.status.checkpointFiles) :
       obj.status.checkpointFiles[j] = obj.status.checkpointFiles[k] => j = k

\* the reconcile-triggered and the cron-triggered pipeline have both
\* recorded the same image of the same container, and one entry is stored
TwoPipelinesOneImage ==
  /\ pc[Rec("n1")] = "cleanup" /\ pc[Cron("n1")] = "cleanup"
  /\ Container(Rec("n1")).name = Container(Cron("n1")).name
  /\ loc[Rec("n1")].imageName = loc[Cron("n1")].imageName
  /\ loc[Rec("n1")].checkpointPath = loc[Cron("n1")].checkpointPath
  /\ Len(obj.status.builtImages) = 1
  /\ Len(obj.status.checkpointFiles) = 1


\* C11: with stopPod true, once the stored phase is CompletedPodDeleted
\* the scheduler of the controller holds no entry for the request.
NoEntryAfterPodDeleted ==
  (obj.exists /\ obj.spec.stopPod
   /\ obj.status.phase = PhaseCompletedPodDeleted)
    => sched["n1"] = {}


\* C12: with stopPod true, an invocation in which the node-agent call, the
\* build or the push has failed returns without deleting the pod, and the
\* pod is deleted only by the stopPod step that follows the update to
\* Completed.
PodKeptOnFailure ==
  [][obj.spec.stopPod =>
       /\ \A th \in Threads :
            pc[th] \in {"phFailedCreate", "phFailedBuild", "phFailedPush"}
              => /\ pc'[th] \in {pc[th], "idle"}
                 /\ pc'[th] # pc[th] => pod' = pod
       /\ (pod.exists /\ ~pod'.exists)
            => \E th \in Threads :
                 /\ pc[th] = "deletePod"
                 /\ pc'[th] = "lookupJob"
                 /\ Backup(th).status.phase = PhaseCompleted]_vars

\* a capture of a request with stopPod true has failed at the push and
\* the invocation has returned: the pod is still there
PodKeptAfterFailedPush ==
  /\ obj.spec.stopPod
  /\ obj.status.phase = PhaseFailed
  /\ obj.status.message = PhaseMessages["phFailedPush"]
  /\ pc[Rec("n1")] = "idle"
  /\ pod.exists /\ pod.phase = "Running"


\* C13: after a failed push, when checkpointContainer returns, the stored
\* phase is Failed with the push message, no builtImages entry has been
\* appended, the checkpoint file is still on the disk of the node, and
\* the invocation has returned to its caller.
PushFailureHandled ==
  [][\A th \in Threads :
       pc[th] = "phFailedPush" =>
         /\ obj'.status.builtImages = obj.status.builtImages
         /\ disk' = disk
         /\ loc[th].checkpointPath \in disk'[NodeOf(th)]
         /\ (pc'[th] # pc[th] /\ crashes' = crashes /\ obj'.exists) =>
              /\ pc'[th] = "idle"
              /\ obj'.status.phase = PhaseFailed
              /\ obj'.status.message = PhaseMessages["phFailedPush"]]_vars


\* C14: without a registry every builtImages entry has a name that starts
\* with localhost/ and is not marked pushed, and the stored phase is never
\* ImagePushing or ImagePushed, whether or not spec.containers names an
\* image.
LocalImagesWithoutRegistry ==
  (obj.exists /\ ~obj.spec.registry) =>
    /\ \A k \in 1..Len(obj.status.builtImages) :
         /\ obj.status.builtImages[k].imageName[1] = "localhost/checkpoint"
         /\ ~obj.status.builtImages[k].pushed
    /\ obj.status.phase \notin {PhaseImagePushing, PhaseImagePushed}

\* a request without registry whose spec.containers names an image has
\* completed with a recorded image
LocalImageDespiteSpecImage ==
  /\ ~obj.spec.registry
  /\ Len(obj.spec.containers) = 1
  /\ obj.spec.containers[1].image # ""
  /\ obj.status.phase = PhaseCompleted
  /\ Len(obj.status.builtImages) = 1

\* C15: when a binding of the migration's resource exists and no longer
\* lists a source cluster of the migration, and a CheckpointBackup of the
\* same resource and pod namespace exists, a restore Reconcile that returns
\* without error leaves a CheckpointRestore named after the backup
\* ("<backup>-restore") in the backup's namespace.
RestoreTriggered ==
  [][LET ref == statefulMigration.spec.resourceRef
         sourceClusters == statefulMigration.spec.sourceClusters
         removed ==
           \E b \in 1..Len(resourceBindings), i \in 1..Len(sourceClusters) :
             /\ sameResource(resourceBindings[b].spec.resource, ref)
             /\ \A j \in 1..Len(resourceBindings[b].spec.clusters) :
                  resourceBindings[b].spec.clusters[j] # sourceClusters[i]
     IN (/\ passes' = passes + 1
         /\ result' = "requeue"
         /\ statefulMigration.exists /\ karmadaClient
         /\ removed)
        => \A b \in 1..Len(checkpointBackups) :
             (/\ sameResource(checkpointBackups[b].spec.resourceRef, ref)
              /\ checkpointBackups[b].spec.podRef.namespace = ref.namespace)
             => \E r \in 1..Len(checkpointRestores') :
                  /\ checkpointRestores'[r].name
                       = checkpointBackups[b].name \o <<"-restore">>
                  /\ checkpointRestores'[r].namespace
                       = checkpointBackups[b].namespace]_vars

\* C16: while a source cluster is listed in the binding of the migration's
\* resource, what the reconciler does for that cluster creates no
\* CheckpointRestore and no propagation policy and changes no Work,
\* whichever API call fails; and a restore Reconcile during which every
\* source cluster is listed leaves all three as they were, however many
\* Reconciles there are.
NoRestoreWhileListed ==
  [][LET ref == statefulMigration.spec.resourceRef
         sourceClusters == statefulMigration.spec.sourceClusters
         listed(c) ==
           \E b \in 1..Len(resourceBindings) :
             /\ sameResource(resourceBindings[b].spec.resource, ref)
             /\ \E j \in 1..Len(resourceBindings[b].spec.clusters) :
                  resourceBindings[b].spec.clusters[j] = c
         same(k) ==
           /\ k.restores = checkpointRestores
           /\ k.policies = propagationPolicies
           /\ k.works = works
     IN /\ \A i \in 1..Len(sourceClusters), fault \in Faults :
             listed(sourceClusters[i]) =>
               same(processSourceCluster(Plane, statefulMigration,
                                         sourceClusters[i], fault))
        /\ (/\ passes' = passes + 1
            /\ \A i \in 1..Len(sourceClusters) : listed(sourceClusters[i]))
           => UNCHANGED <<checkpointRestores, propagationPolicies, works>>]_vars

\* the reconciler has polled more than once and without error, all source
\* clusters are listed in the binding, a captured backup of the resource is
\* there, and there is neither a CheckpointRestore nor a policy
PolledWhileListed ==
  /\ passes = MaxPasses /\ passes > 1 /\ result = "requeue"
  /\ statefulMigration.exists /\ karmadaClient
  /\ statefulMigration.spec.sourceClusters = <<"c1", "c2">>
  /\ Len(resourceBindings) = 1
  /\ sameResource(resourceBindings[1].spec.resource,
                  statefulMigration.spec.resourceRef)
  /\ resourceBindings[1].spec.clusters = <<"c1", "c2">>
  /\ Len(findCheckpointBackups(checkpointBackups,
                               statefulMigration.spec.resourceRef, "c1")) = 1
  /\ checkpointRestores = <<>>
  /\ deletedRestores = {}
  /\ propagationPolicies = {}

\* C17: for every CheckpointBackup of the migration's resource, a restore
\* Reconcile that returns without error while a source cluster is gone
\* from the binding of the resource leaves the CheckpointRestore of that
\* backup, which names the backup in backupRef, and for every built image
\* recorded in the backup's status its containers hold the pair of that
\* container name and that image (the engine records the image
\* <<image, "", 0>> for the image string it took from the spec), also when
\* spec.containers is empty; and every CheckpointRestore a Reconcile
\* creates for a backup is of that form.
RestoreCarriesCapturedImages ==
  [][LET ref == statefulMigration.spec.resourceRef
         sourceClusters == statefulMigration.spec.sourceClusters
         backups == findCheckpointBackups(checkpointBackups, ref, "")
         removed ==
           \E b \in 1..Len(resourceBindings), i \in 1..Len(sourceClusters) :
             /\ sameResource(resourceBindings[b].spec.resource, ref)
             /\ \A j \in 1..Len(resourceBindings[b].spec.clusters) :
                  resourceBindings[b].spec.clusters[j] # sourceClusters[i]
         carries(restore, backup) ==
           /\ restore.name = restoreNameOf(backup)
           /\ restore.namespace = backup.namespace
           /\ restore.spec.backupRef.name = backup.name
           /\ \A k \in 1..Len(backup.status.builtImages) :
                \E c \in 1..Len(restore.spec.containers) :
                  /\ restore.spec.containers[c].name
                       = backup.status.builtImages[k].containerName
                  /\ <<restore.spec.containers[c].image, "", 0>>
                       = backup.status.builtImages[k].imageName
     IN passes' = passes + 1 =>
          /\ \A r \in 1..Len(checkpointRestores'), b \in 1..Len(backups) :
               (/\ checkpointRestores'[r] \notin Range(checkpointRestores)
                /\ checkpointRestores'[r].name = restoreNameOf(backups[b])
                /\ checkpointRestores'[r].namespace = backups[b].namespace)
               => carries(checkpointRestores'[r], backups[b])
          /\ (/\ result' = "requeue"
              /\ statefulMigration.exists /\ karmadaClient
              /\ removed)
             => \A b \in 1..Len(backups) :
                  \E r \in 1..Len(checkpointRestores') :
                    carries(checkpointRestores'[r], backups[b])]_vars

\* C18: a restore Reconcile that returns without error while one source
\* cluster of the migration is gone from the binding of the resource and
\* another one is left in it leaves, for every CheckpointBackup of the
\* resource, the propagation policy of its CheckpointRestore, and the
\* policy names target clusters that are source clusters of the migration
\* and are not gone from the binding; and every policy a Reconcile creates
\* names such clusters only.
PolicyTargetsRemainingCluster ==
  [][LET ref == statefulMigration.spec.resourceRef
         sourceClusters == statefulMigration.spec.sourceClusters
         backups == findCheckpointBackups(checkpointBackups, ref, "")
         removed(c) ==
           \E b \in 1..Len(resourceBindings) :
             /\ sameResource(resourceBindings[b].spec.resource, ref)
             /\ \A j \in 1..Len(resourceBindings[b].spec.clusters) :
                  resourceBindings[b].spec.clusters[j] # c
         remaining(policy) ==
           \A t \in 1..Len(policy.clusterNames) :
             /\ policy.clusterNames[t] \in Range(sourceClusters)
             /\ ~removed(policy.clusterNames[t])
     IN (/\ passes' = passes + 1
         /\ \E i \in 1..Len(sourceClusters) : ~removed(sourceClusters[i]))
        => /\ \A policy \in propagationPolicies' \ propagationPolicies :
                remaining(policy)
           /\ (/\ result' = "requeue"
               /\ statefulMigration.exists /\ karmadaClient
               /\ \E i \in 1..Len(sourceClusters) : removed(sourceClusters[i]))
              => \A b \in 1..Len(backups) :
                   \E policy \in propagationPolicies' :
                     /\ policy.resourceSelector.name = restoreNameOf(backups[b])
                     /\ policy.namespace = backups[b].namespace
                     /\ Len(policy.clusterNames) > 0
                     /\ remaining(policy)]_vars

\* C19: the reconciler changes a Work only when the migration's resource is
\* of kind Pod; and after a restore Reconcile that returned without error
\* for a Pod of which a source cluster is gone from the binding, in every
\* Pod manifest of the Work of that resource a container whose name has a
\* built image in the status of a matching CheckpointBackup has that
\* image, and any other container has the image it had.
WorkRewrittenWithCapturedImages ==
  [][LET ref == statefulMigration.spec.resourceRef
         sourceClusters == statefulMigration.spec.sourceClusters
         backups == findCheckpointBackups(checkpointBackups, ref, "")
         w == findWorkForResource(works, ref)
         removed ==
           \E b \in 1..Len(resourceBindings), i \in 1..Len(sourceClusters) :
             /\ sameResource(resourceBindings[b].spec.resource, ref)
             /\ \A j \in 1..Len(resourceBindings[b].spec.clusters) :
                  resourceBindings[b].spec.clusters[j] # sourceClusters[i]
         captured(name) ==
           UNION {{backups[b].status.builtImages[k].imageName :
                     k \in {j \in 1..Len(backups[b].status.builtImages) :
                              backups[b].status.builtImages[j].containerName
                                = name}} :
                  b \in 1..Len(backups)}
     IN passes' = passes + 1 =>
          /\ works' # works => ref.kind = "Pod"
          /\ (/\ ref.kind = "Pod" /\ result' = "requeue"
              /\ statefulMigration.exists /\ karmadaClient
              /\ removed /\ Len(backups) > 0 /\ w # 0)
             => \A m \in 1..Len(works[w].manifests) :
                  works[w].manifests[m].kind = "Pod" =>
                    \A c \in 1..Len(works[w].manifests[m].containers) :
                      LET before == works[w].manifests[m].containers[c]
                          after == works'[w].manifests[m].containers[c]
                      IN IF captured(before.name) # {}
                         THEN <<after.image, "", 0>>
                                \in captured(before.name)
                         ELSE after.image = before.image]_vars

\* C20: a CheckpointRestore that was deleted is not there again in any
\* later state, whatever the restore reconciler does in its Reconciles; and
\* a request for a pod that matches a deleted CheckpointRestore of its
\* namespace and no stored one is allowed without a patch.
DeletedRestoreStaysCancelled ==
  [][/\ \A r \in deletedRestores' :
          \A i \in 1..Len(checkpointRestores') :
            \/ checkpointRestores'[i].name # r.name
            \/ checkpointRestores'[i].namespace # r.namespace
     /\ admits' = admits + 1 =>
          LET request == admission'.request
              matches(r) ==
                /\ r.namespace = request.namespace
                /\ nameMatch(r.spec, request.object.name,
                             request.object.generateName)
          IN (/\ \E r \in deletedRestores : matches(r)
              /\ \A i \in 1..Len(checkpointRestores) :
                   ~matches(checkpointRestores[i]))
             => admission'.allowed /\ admission'.patch = <<>>]_vars

\* a pod was admitted without a patch that the deleted CheckpointRestore
\* would have patched, the migration is there and the reconciler has polled
AdmittedAfterDeletion ==
  /\ admits = 1 /\ passes > 0 /\ result = "requeue"
  /\ statefulMigration.exists /\ karmadaClient
  /\ admission.outcome = "ok"
  /\ admission.request.kind = "Pod"
  /\ admission.request.operation = "CREATE"
  /\ admission.allowed /\ admission.patch = <<>>
  /\ \E r \in deletedRestores :
       /\ r.namespace = admission.request.namespace
       /\ nameMatch(r.spec, admission.request.object.name,
                    admission.request.object.generateName)
       /\ handleMutate(admission.request, <<r>>, "ok").patch # <<>>
  /\ Len(findCheckpointBackups(checkpointBackups,
                               statefulMigration.spec.resourceRef, "c1")) = 1
  /\ Len(resourceBindings) = 1
  /\ resourceBindings[1].spec.clusters = <<"c2">>
  /\ sameResource(resourceBindings[1].spec.resource,
                  statefulMigration.spec.resourceRef)
  /\ statefulMigration.spec.sourceClusters = <<"c1", "c2">>

\* C21: no patch operation a webhook makes for an admitted pod has as its
\* value the image the targeted container already has: neither an
\* operation in the response of handleMutate, nor one that the pod mutator
\* generates for the pod from the CheckpointBackup it matched.
NoPatchToSameImage ==
  /\ admission.handler = "handleMutate" =>
       \A k \in 1..Len(admission.patch) :
         LET target == admission.patch[k].path
             containers ==
               IF target[1] = "/spec/containers"
               THEN admission.request.object.containers
               ELSE admission.request.object.initContainers
         IN admission.patch[k].value # containers[target[2] + 1].image
  /\ (admission.handler = "PodMutator" /\ admission.outcome = "ok") =>
       LET admitted == admission.request.object
           b == findMatchingCheckpointBackup(
                  checkpointBackups, admission.request.namespace,
                  getJobName(admitted))
       IN (isPodFromJob(admitted) /\ b # 0) =>
            \A k \in 1..Len(generateImagePatches(admitted,
                                                 checkpointBackups[b])) :
              LET patch == generateImagePatches(admitted,
                                                checkpointBackups[b])[k]
              IN patch.value
                   # imageOf(admitted.containers[patch.path[2] + 1].image)

\* C22: a webhook that decoded a pod carrying no owner reference of kind
\* Job allows the pod and returns no patch, whatever CheckpointBackups and
\* CheckpointRestores exist in the namespace of the pod.
OnlyJobPodsPatched ==
  (/\ admission.handler # ""
   /\ admission.outcome # "badPod"
   /\ ~isPodFromJob(admission.request.object))
    => (admission.allowed /\ admission.patch = <<>>)

\* C23: every answer of a webhook is an admission response that allows the
\* pod, never an error response or a denial, and when the pod could not be
\* decoded or the list call failed the response carries no patch.
InternalErrorsAllow ==
  admission.handler # "" =>
    /\ admission.code = 200
    /\ admission.allowed
    /\ admission.outcome # "ok" => admission.patch = <<>>

\* C24: when the pod mutator has matched a Job-owned pod with a
\* CheckpointBackup, the resourceRef of the backup is the Job of the pod or
\* a CronJob whose name followed by "-" begins the name of the Job; the
\* patches generated for the pod are, in the order of the pod's
\* containers, one replace operation at the container's index for each
\* container that spec.containers names with a non-empty image or that
\* status.builtImages names; its value is such an image of spec.containers
\* when there is one and an image of status.builtImages otherwise.
specImagesOf(backup, name) ==
  {imageOf(backup.spec.containers[k].image) :
     k \in {k \in 1..Len(backup.spec.containers) :
              /\ backup.spec.containers[k].name = name
              /\ backup.spec.containers[k].image # ""}}

builtImagesOf(backup, name) ==
  {backup.status.builtImages[k].imageName :
     k \in {k \in 1..Len(backup.status.builtImages) :
              /\ backup.status.builtImages[k].containerName = name
              /\ backup.status.builtImages[k].imageName # imageOf("")}}

PatchesFromSpecThenStatus ==
  (admission.handler = "PodMutator" /\ admission.outcome = "ok") =>
    LET admitted == admission.request.object
        jobName == getJobName(admitted)
        b == findMatchingCheckpointBackup(
               checkpointBackups, admission.request.namespace, jobName)
        backup == checkpointBackups[b]
        patches == generateImagePatches(admitted, backup)
        mapped == {i \in 1..Len(admitted.containers) :
                     specImagesOf(backup, admitted.containers[i].name)
                       \cup builtImagesOf(backup, admitted.containers[i].name)
                       # {}}
    IN (isPodFromJob(admitted) /\ b # 0) =>
         /\ \/ /\ backup.spec.resourceRef.kind = "Job"
               /\ backup.spec.resourceRef.name = jobName
            \/ /\ backup.spec.resourceRef.kind = "CronJob"
               /\ HasPrefix(jobName,
                            backup.spec.resourceRef.name \o <<"-">>)
         /\ Len(patches) = Cardinality(mapped)
         /\ \A k \in 1..Len(patches) :
              /\ patches[k].op = "replace"
              /\ patches[k].path[1] = "/spec/containers"
              /\ patches[k].path[2] + 1 \in mapped
              /\ \A l \in 1..Len(patches) :
                   k < l => patches[k].path[2] < patches[l].path[2]
              /\ LET name == admitted.containers[patches[k].path[2] + 1].name
                 IN IF specImagesOf(backup, name) # {}
                    THEN patches[k].value \in specImagesOf(backup, name)
                    ELSE patches[k].value \in builtImagesOf(backup, name)

\* the pod of a Job made by CronJob cj is matched; its second container is
\* patched with the image that only status.builtImages names, its first
\* container, which the backup does not name, is not
SecondContainerPatchedFromStatus ==
  /\ admission.handler = "PodMutator"
  /\ admission.outcome = "ok"
  /\ getJobName(admission.request.object) = <<"cj", "-", "1">>
  /\ Len(admission.request.object.containers) = 2
  /\ Len(checkpointBackups) = 1
  /\ findMatchingCheckpointBackup(
       checkpointBackups, admission.request.namespace,
       getJobName(admission.request.object)) = 1
  /\ specImagesOf(checkpointBackups[1], "a") = {}
  /\ builtImagesOf(checkpointBackups[1], "a") # {}
  /\ Len(generateImagePatches(admission.request.object,
                              checkpointBackups[1])) = 1
  /\ generateImagePatches(admission.request.object,
                          checkpointBackups[1])[1].path
       = <<"/spec/containers", 1>>

\* C25: the stored phase of a CheckpointBackup changes only by one step of
\* the order (unset), Checkpointing, Checkpointed, ImageBuilding,
\* ImageBuilt, ImagePushing, ImagePushed, Completed, CompletedPodDeleted
\* (ImagePushing and ImagePushed only with a registry), from a phase
\* before Completed to Failed, or from Completed to CompletedWithError.
LinearSteps(registry) ==
  { <<PhaseNone, PhaseCheckpointing>>,
    <<PhaseCheckpointing, PhaseCheckpointed>>,
    <<PhaseCheckpointed, PhaseImageBuilding>>,
    <<PhaseImageBuilding, PhaseImageBuilt>>,
    <<PhaseCompleted, PhaseCompletedPodDeleted>>,
    <<PhaseCompleted, PhaseCompletedWithError>> }
  \cup (IF registry
        THEN { <<PhaseImageBuilt, PhaseImagePushing>>,
               <<PhaseImagePushing, PhaseImagePushed>>,
               <<PhaseImagePushed, PhaseCompleted>> }
        ELSE { <<PhaseImageBuilt, PhaseCompleted>> })
  \cup ({PhaseNone, PhaseCheckpointing, PhaseCheckpointed,
         PhaseImageBuilding, PhaseImageBuilt, PhaseImagePushing,
         PhaseImagePushed} \X {PhaseFailed})

PhaseMovesLinearly ==
  [][(obj.exists /\ obj'.exists
      /\ obj'.status.phase # obj.status.phase)
       => <<obj.status.phase, obj'.status.phase>>
            \in LinearSteps(obj.spec.registry)]_vars

\* C26: whenever the stored phase of the CheckpointBackup is Completed,
\* CompletedPodDeleted or CompletedWithError, the stored
\* status.lastCheckpointTime is set.
CompletedHasCheckpointTime ==
  (/\ obj.exists
   /\ obj.status.phase \in {PhaseCompleted, PhaseCompletedPodDeleted,
                            PhaseCompletedWithError})
    => obj.status.lastCheckpointTime

\* C27: when checkpointContainer returns because the checkpoint file is
\* not found after the capture, or because the pod has no container of
\* the name, the stored phase of the CheckpointBackup is Failed.
FailedWhenFileNotFound ==
  [][\A th \in Threads :
       (Verify(th) /\ pc'[th] = "idle" /\ obj.exists)
         => obj'.status.phase = PhaseFailed]_vars

\* C28: when the third attempt of a status mutation made by a reconcile
\* ends with a conflict as the two before it, the pipeline stops and the
\* reconcile returns: it does not go on to its next step.
RetriesExhaustedStopsPipeline ==
  [][\A n \in Nodes :
       (/\ MutUpdate(Rec(n))
        /\ obj.exists
        /\ Rec(n) \notin seen
        /\ loc[Rec(n)].i = maxRetries - 1)
         => pc'[Rec(n)] = "idle"]_vars

\* C29: after the cleanup step that ends a container's pipeline, the
\* checkpoint file the image was built from is no longer on the node's
\* disk when no registry is configured or the image was pushed, whether
\* its path came from the node agent or from the search for the file; it
\* is left on disk when a registry is configured and nothing was pushed.
CleanupRemovesBuiltFile ==
  [][\A th \in Threads :
       Cleanup(th) =>
         IF ~Backup(th).spec.registry \/ loc[th].pushed
         THEN loc[th].checkpointPath \notin disk'[NodeOf(th)]
         ELSE disk' = disk]_vars

\* C30: once the deletion of the pod of a completed stopPod request has
\* been tried, with or without success, and performCheckpoint goes on to
\* write the phase, the scheduler of the node's controller holds no entry
\* for the request; after a failed deletion the phase written is
\* CompletedWithError, and the steps of the deletion keep the images
\* recorded in the stored object.
JobRemovedAfterPodDeletion ==
  [][\A th \in Threads :
       (\/ \E outcome \in Outcomes : DeletePod(th, outcome)
        \/ LookupScheduledJob(th)
        \/ RemoveScheduledJob(th))
         => /\ pc'[th] \in {"phCompletedWithError", "phCompletedPodDeleted"}
                 => sched'[NodeOf(th)] = {}
            /\ (pc[th] = "deletePod" /\ pod' = pod)
                 => pc'[th] = "phCompletedWithError"
            /\ obj'.status.builtImages = obj.status.builtImages]_vars

\* C32: an operation in the response of handleMutate that targets a
\* container, or init container, which the matched CheckpointRestore does
\* not name in spec.containers is made only when the CheckpointRestore
\* gives a default image in spec.image, and its value is that image.
matchedRestore(request, items) ==
  First({i \in 1..Len(items) :
           /\ items[i].namespace = request.namespace
           /\ nameMatch(items[i].spec, request.object.name,
                        request.object.generateName)})

UnnamedPatchedOnlyWithDefault ==
  admission.handler = "handleMutate" =>
    \A k \in 1..Len(admission.patch) :
      LET target == admission.patch[k].path
          containers ==
            IF target[1] = "/spec/containers"
            THEN admission.request.object.containers
            ELSE admission.request.object.initContainers
          spec == checkpointRestores[
                    matchedRestore(admission.request, checkpointRestores)].spec
      IN (\A c \in 1..Len(spec.containers) :
            spec.containers[c].name # containers[target[2] + 1].name)
           => /\ spec.image # ""
              /\ admission.patch[k].value = spec.image

\* C33: for every init container of a pod a webhook has matched whose
\* name is mapped to an image other than the one it has, the patches of
\* the webhook hold a replace of /spec/initContainers/{index}/image by
\* the mapped image: in the response of handleMutate, and among the
\* patches the pod mutator generates from the CheckpointBackup it matched.
InitContainersPatched ==
  /\ (admission.handler = "handleMutate" /\ admission.outcome = "ok"
        /\ admission.code = 200
        /\ matchedRestore(admission.request, checkpointRestores) # 0) =>
       LET inits == admission.request.object.initContainers
           spec == checkpointRestores[
                     matchedRestore(admission.request,
                                    checkpointRestores)].spec
           images == imageMapOf(<<>>, spec.containers, 1)
       IN \A i \in 1..Len(inits) :
            (inits[i].name \in DOMAIN images
               /\ images[inits[i].name] # inits[i].image)
              => \E k \in 1..Len(admission.patch) :
                   admission.patch[k]
                     = [op |-> "replace",
                        path |-> <<"/spec/initContainers", i - 1>>,
                        value |-> images[inits[i].name]]
  /\ (admission.handler = "PodMutator" /\ admission.outcome = "ok") =>
       LET admitted == admission.request.object
           inits == admitted.initContainers
           b == findMatchingCheckpointBackup(
                  checkpointBackups, admission.request.namespace,
                  getJobName(admitted))
           images == imageMap(checkpointBackups[b])
           patches == generateImagePatches(admitted, checkpointBackups[b])
       IN (isPodFromJob(admitted) /\ b # 0) =>
            \A i \in 1..Len(inits) :
              (inits[i].name \in DOMAIN images
                 /\ images[inits[i].name] # imageOf(inits[i].image))
                => \E k \in 1..Len(patches) :
                     patches[k]
                       = [op |-> "replace",
                          path |-> <<"/spec/initContainers", i - 1>>,
                          value |-> images[inits[i].name]]

\* C34: on every node the scheduler holds at most one entry for the
\* CheckpointBackup, and it holds exactly the entry that scheduledJobs
\* records: none when scheduledJobs has no record. (Stated for the states
\* in which the reconcile worker of the node is not between the call of
\* AddFunc and the record of the entry it returned.)
OneRecordedEntry ==
  \A n \in Nodes :
    pc[Rec(n)] # "recordJob" =>
      sched[n] = IF scheduledJobs[n] = NoObj THEN {} ELSE {scheduledJobs[n]}

\* C35: when a reconcile of a CheckpointBackup whose schedule is
\* "immediately" has passed the schedule handling of reconcileNormal, the
\* scheduler of the controller holds no entry for the request, also when
\* an earlier reconcile scheduled it under a cron expression.
ImmediatelyHasNoEntry ==
  [][(/\ ReconcileNormal("n1")
      /\ heap["n1"][loc[Rec("n1")].b].spec.schedule = "immediately")
       => sched'["n1"] = {}]_vars


\* C36: on one controller at most one capture pipeline is in flight for
\* a request: the reconcile-triggered run and the cron-triggered run of
\* performCheckpoint are never both past the phase guard and at the call
\* of the node agent for the same request.
OnePipelineInFlight ==
  \A t1, t2 \in Threads :
    ~(/\ t1 # t2 /\ NodeOf(t1) = NodeOf(t2)
      /\ pc[t1] = "kubelet" /\ pc[t2] = "kubelet"
      /\ Container(t1).name = Container(t2).name)



\* C37: liveness: for a request with schedule "immediately" whose pod is
\* absent or not Running at the first reconcile, once the pod is Running
\* on the node of the controller the request is eventually captured (the
\* stored phase reaches Completed) without any change to the request by
\* others, when the node agent, the build and the status writes succeed.
RunningPodLeadsToCompleted ==
  (pod.exists /\ pod.node = "n1" /\ pod.phase = "Running")
    ~> (obj.status.phase = PhaseCompleted)



\* C38: the image of a request with a registry is pushed to the registry
\* host and with the credentials that the spec.registry of the request
\* itself names, also when the controller reconciled before it another
\* request that names another registry or another secret.
PushedWithOwnRegistry ==
  [][\A th \in Threads :
       (Push(th, "ok") /\ Backup(th).spec.registry)
         => registryClient[NodeOf(th)] = NewRegistryClient(OwnRegistry)]_vars



\* C39: every builtImages entry recorded with pushed true carries as its
\* imageName the reference the image was pushed to, <host>/<image>.
RecordedNameIsPushedReference ==
  [][\A th \in Threads :
       (/\ MutUpdate(th)
        /\ pc[th] = "recImage"
        /\ loc[th].pushed
        /\ obj'.status.builtImages # obj.status.builtImages)
         => LET e == obj'.status.builtImages[Len(obj'.status.builtImages)]
            IN e.pushed /\ e.imageName = loc[th].destinationImage]_vars



\* C40: with stopPod true the pod is deleted only in a state where
\* status.builtImages holds at least one entry, and an entry for every
\* container the pipeline had to capture.
PodDeletedOnlyWhenCaptured ==
  [][\A th \in Threads :
       (DeletePod(th, "ok") /\ pod.exists /\ ~pod'.exists)
         => /\ Len(obj.status.builtImages) >= 1
            /\ \A k \in 1..Len(Todo(th)) :
                 imageAlreadyBuilt(obj, Todo(th)[k].name)]_vars


=============================================================================
